---- MODULE Spec2Model ----
(***************************************************************************)
(* Model of github-okr-fetcher: the status accessors of                    *)
(* entity.IssueWithUpdates, the hierarchy resolution of                    *)
(* service.OKRService.ProcessOKRIssues and the retrying fetch operations   *)
(* of github.BridgeClient.                                                 *)
(***************************************************************************)
EXTENDS Integers, Sequences, FiniteSets, TLC

VARIABLES
    \* ---- status accessors (entity/issue.go) ----
    iwu,            \* the IssueWithUpdates the accessors are called on
    krRet,          \* last value returned by GetKRStatus ("none" before a call)
    objRet,         \* last value returned by GetObjectiveStatus
    \* ---- OKRService.ProcessOKRIssues (service/okr.go) ----
    issues,         \* the []*entity.Issue argument: issues[k] is the Issue behind pointer k
    requiredLabels, \* the requiredLabels argument
    pc,             \* position of the run inside ProcessOKRIssues
    filteredIssues, \* pointers that passed filterIssuesByLabels
    parentChildMap, \* parent number -> pointers of its children
    parentIssues,   \* pointers of the objectives to process
    usedFallback,   \* the branch at okr.go:101 was taken
    objIdx,         \* number of objectives processed by the loop at okr.go:111
    cur,            \* the node processObjectiveWithChildren is building (<<>>: none)
    childIdx,       \* children of the objective in hand dealt with so far
    objectives,     \* the objectives accumulated by that loop
    ret,            \* the list ProcessOKRIssues returned
    \* ---- BridgeClient fetch operations ----
    config,         \* b.config: the entity.Config the client was built with
    fpc,            \* position of the running fetch operation
    call,           \* the running operation: its kind and argument
    maxRetries,     \* the maxRetries argument of retryWithBackoff
    attemptI,       \* the loop variable i of retryWithBackoff
    page,           \* opt.Page of the operation body (0 = first page)
    allItems,       \* allIssues / allComments, captured by the operation closure
    bodyRuns,       \* how often this call has started the operation body
    attemptErrs,    \* the API errors that ended the attempts of this call
    stats,          \* b.stats counters
    cache,          \* b.cache.data: key -> entry
    now,            \* the clock, in minutes
    result,         \* what the finished call returned
    calls,          \* number of calls finished so far
    tokens,         \* successful b.rateLimiter.Wait calls so far
    atCall,         \* b.stats and b.cache.data as they were when the call started
    fetched,        \* key -> what the last fetch of that key that went to the API returned
    cancelled,      \* the caller's context: <<>> or what had been sent when it was cancelled
    \* ---- concurrent users of one APICache (infrastructure.go) ----
    gpc,            \* goroutine -> position inside its cache method
    gop,            \* goroutine -> the method it runs and its key
    rw,             \* c.mu: the goroutines holding the read lock and the write lock
    fatal,          \* the runtime stopped the process on a concurrent map access
    \* ---- comment parsing (repository.go, okr.go) ----
    content,        \* the comment body handed to the status detection
    detected,       \* what the status detections returned for it
    rawComments,    \* the raw comments handed to the parsers
    parsed          \* the WeeklyUpdate lists the parsers returned

statusVars == <<iwu, krRet, objRet>>
okrVars == <<issues, requiredLabels, pc, filteredIssues, parentChildMap,
             parentIssues, usedFallback, objIdx, cur, childIdx, objectives, ret>>
fetchVars == <<config, fpc, call, maxRetries, attemptI, page, allItems, bodyRuns,
               attemptErrs, stats, cache, now, result, calls, tokens, atCall, fetched,
               cancelled>>
lockVars == <<gpc, gop, rw, fatal>>
parseVars == <<content, detected, rawComments, parsed>>
vars == <<statusVars, okrVars, fetchVars, lockVars, parseVars>>

(***************************************************************************)
(* entity/issue.go: types and constants                                    *)
(***************************************************************************)
IssueTypeObjective == "objective"
IssueTypeKeyResult == "kr"
IssueTypeUnset     == ""

StatusOnTrack   == "on-track"
StatusCaution   == "caution"
StatusDelayed   == "delayed"
StatusAtRisk    == "at-risk"
StatusBlocked   == "blocked"
StatusCompleted == "completed"
StatusUnknown   == "unknown"

WeeklyUpdateStatus ==
    {StatusOnTrack, StatusCaution, StatusDelayed, StatusAtRisk,
     StatusBlocked, StatusCompleted, StatusUnknown}

IssueTypes  == {IssueTypeObjective, IssueTypeKeyResult, IssueTypeUnset}
\* Issue.State as converted from the API: "open", "closed", or "" when absent
IssueStates == {"open", "closed", ""}

\* A nil *WeeklyUpdate is the empty sequence, a non-nil one a sequence of one.
NilUpdate == <<>>

\* Issue.IsObjective / Issue.IsKeyResult
IsObjective(issue) == issue.Type = IssueTypeObjective
IsKeyResult(issue) == issue.Type = IssueTypeKeyResult

\* IssueWithUpdates.GetLatestUpdateStatus
GetLatestUpdateStatus(i) ==
    IF i.LatestUpdate # NilUpdate THEN i.LatestUpdate[1].Status ELSE StatusUnknown

\* IssueWithUpdates.GetActualStatus
GetActualStatus(i) ==
    LET updateStatus == GetLatestUpdateStatus(i) IN
    IF i.Issue.State = "closed" THEN StatusCompleted
    ELSE IF updateStatus = StatusCompleted /\ i.Issue.State = "open" THEN StatusOnTrack
    ELSE updateStatus

\* The loop of GetKRStatus over AllUpdates: index of the first update whose
\* status is not Unknown, 0 when there is none.
RECURSIVE FirstRecognized(_, _)
FirstRecognized(updates, k) ==
    IF k > Len(updates) THEN 0
    ELSE IF updates[k].Status # StatusUnknown THEN k
    ELSE FirstRecognized(updates, k + 1)

\* A plausible slip: key results take the non-key-result path.
GetKRStatusNoScan(i) == GetActualStatus(i)

\* A plausible slip: the closed-state override is missing.
GetKRStatusNoClosed(i) ==
    LET k == FirstRecognized(i.AllUpdates, 1) IN
    IF k > 0 THEN
        IF i.AllUpdates[k].Status = StatusCompleted /\ i.Issue.State = "open"
        THEN StatusOnTrack ELSE i.AllUpdates[k].Status
    ELSE GetLatestUpdateStatus(i)

\* A plausible slip: the test of the issue type is missing, every issue is
\* treated as a key result.
GetKRStatusTypeBlind(i) ==
    IF i.Issue.State = "closed" THEN StatusCompleted
    ELSE
        LET k == FirstRecognized(i.AllUpdates, 1) IN
        IF k > 0 THEN
            IF i.AllUpdates[k].Status = StatusCompleted /\ i.Issue.State = "open"
            THEN StatusOnTrack
            ELSE i.AllUpdates[k].Status
        ELSE GetLatestUpdateStatus(i)

\* IssueWithUpdates.GetKRStatus
GetKRStatus(i) ==
    IF ~IsKeyResult(i.Issue) THEN GetActualStatus(i)
    ELSE IF i.Issue.State = "closed" THEN StatusCompleted
    ELSE
        LET k == FirstRecognized(i.AllUpdates, 1) IN
        IF k > 0 THEN
            IF i.AllUpdates[k].Status = StatusCompleted /\ i.Issue.State = "open"
            THEN StatusOnTrack
            ELSE i.AllUpdates[k].Status
        ELSE
            LET latestStatus == GetLatestUpdateStatus(i) IN
            IF latestStatus # StatusUnknown THEN
                IF latestStatus = StatusCompleted /\ i.Issue.State = "open"
                THEN StatusOnTrack
                ELSE latestStatus
            ELSE StatusUnknown

\* The counting loop of GetObjectiveStatus: number of children whose
\* GetKRStatus is s.
CountKR(children, s) ==
    Cardinality({k \in 1..Len(children) : GetKRStatus(children[k]) = s})

\* A plausible slip: the Blocked and Delayed checks are swapped.
GetObjectiveStatusSwapped(i) ==
    IF ~IsObjective(i.Issue) \/ Len(i.ChildIssues) = 0 THEN GetActualStatus(i)
    ELSE
        LET c == i.ChildIssues IN
        IF CountKR(c, StatusDelayed) > 0 THEN StatusDelayed
        ELSE IF CountKR(c, StatusBlocked) > 0 THEN StatusBlocked
        ELSE IF CountKR(c, StatusAtRisk) > 0 THEN StatusAtRisk
        ELSE IF CountKR(c, StatusCaution) > 0 THEN StatusCaution
        ELSE IF CountKR(c, StatusCompleted) = Len(c) THEN StatusCompleted
        ELSE IF CountKR(c, StatusCompleted) >= Len(c) \div 2 THEN StatusOnTrack
        ELSE IF CountKR(c, StatusOnTrack) > 0 THEN StatusOnTrack
        ELSE StatusUnknown

\* IssueWithUpdates.GetObjectiveStatus
GetObjectiveStatus(i) ==
    IF ~IsObjective(i.Issue) \/ Len(i.ChildIssues) = 0 THEN GetActualStatus(i)
    ELSE
        LET completed == CountKR(i.ChildIssues, StatusCompleted)
            blocked   == CountKR(i.ChildIssues, StatusBlocked)
            delayed   == CountKR(i.ChildIssues, StatusDelayed)
            atRisk    == CountKR(i.ChildIssues, StatusAtRisk)
            caution   == CountKR(i.ChildIssues, StatusCaution)
            onTrack   == CountKR(i.ChildIssues, StatusOnTrack)
            totalKRs  == Len(i.ChildIssues)
        IN
        IF blocked > 0 THEN StatusBlocked
        ELSE IF delayed > 0 THEN StatusDelayed
        ELSE IF atRisk > 0 THEN StatusAtRisk
        ELSE IF caution > 0 THEN StatusCaution
        ELSE IF completed = totalKRs THEN StatusCompleted
        ELSE IF completed >= totalKRs \div 2 THEN StatusOnTrack
        ELSE IF onTrack > 0 THEN StatusOnTrack
        ELSE StatusUnknown

(***************************************************************************)
(* Inputs of the status accessors                                          *)
(***************************************************************************)
MaxUpdates  == 3    \* longest AllUpdates list of the issue under test
MaxChildren == 4    \* longest ChildIssues list of the issue under test

\* entity.WeeklyUpdate carrying status s
Upd(s) == [Date |-> "2025-07-01", Content |-> "", Author |-> "octocat", Status |-> s]

\* entity.Issue
Iss(n, t, st) == [Number |-> n, Type |-> t, State |-> st]

\* entity.IssueWithUpdates
IWU(issue, latest, all, children) ==
    [Issue |-> issue, LatestUpdate |-> latest, AllUpdates |-> all, ChildIssues |-> children]

SeqsUpTo(S, n) == UNION {[1..k -> S] : k \in 0..n}

UpdateSet  == {Upd(s) : s \in WeeklyUpdateStatus}
\* LatestUpdate is a field of its own: nil, or a pointer to any update.
LatestSet  ==
    {NilUpdate} \cup
    {<<Upd(s)>> : s \in {StatusCompleted, StatusBlocked, StatusUnknown}}

\* Issues without children: every type, state, update list and latest update.
LeafInputs ==
    {IWU(Iss(1, t, st), l, a, <<>>) :
        t \in IssueTypes, st \in IssueStates, l \in LatestSet,
        a \in SeqsUpTo(UpdateSet, MaxUpdates)}

\* Children as processObjectiveWithChildren builds them: a key result, open
\* or closed, with its fetched updates and LatestUpdate = AllUpdates[0].
ChildPool ==
    {IWU(Iss(2, IssueTypeKeyResult, "open"), <<Upd(s)>>, <<Upd(s)>>, <<>>) :
        s \in WeeklyUpdateStatus}
    \cup {IWU(Iss(2, IssueTypeKeyResult, "closed"), NilUpdate, <<>>, <<>>)}

\* Open issues with children: every type, with or without an update of their own.
ParentInputs ==
    {IWU(Iss(1, t, st), l, l, c) :
        t \in IssueTypes, st \in {"open"},
        l \in {NilUpdate, <<Upd(StatusCaution)>>},
        c \in SeqsUpTo(ChildPool, MaxChildren) \ {<<>>}}

\* No client exists in the status and service specifications.
FetchIdle ==
    /\ config = <<>>
    /\ fpc = "off"
    /\ call = <<>>
    /\ maxRetries = 0
    /\ attemptI = 0
    /\ page = 0
    /\ allItems = <<>>
    /\ bodyRuns = 0
    /\ attemptErrs = <<>>
    /\ stats = <<>>
    /\ cache = <<>>
    /\ now = 0
    /\ result = <<>>
    /\ calls = 0
    /\ tokens = 0
    /\ atCall = <<>>
    /\ fetched = <<>>
    /\ cancelled = <<>>

\* No goroutine uses a cache outside the cache specification.
LockIdle ==
    /\ gpc = <<>>
    /\ gop = <<>>
    /\ rw = <<>>
    /\ fatal = FALSE

\* No comment is parsed outside the parser specification.
ParseIdle ==
    /\ content = {}
    /\ detected = <<>>
    /\ rawComments = <<>>
    /\ parsed = <<>>

\* The service is not running in the status specification.
OKRIdle ==
    /\ issues = <<>>
    /\ requiredLabels = <<>>
    /\ pc = "idle"
    /\ filteredIssues = <<>>
    /\ parentChildMap = <<>>
    /\ parentIssues = <<>>
    /\ usedFallback = FALSE
    /\ objIdx = 0
    /\ cur = <<>>
    /\ childIdx = 0
    /\ objectives = <<>>
    /\ ret = <<>>

StatusInit ==
    /\ iwu \in LeafInputs \cup ParentInputs
    /\ krRet = "none"
    /\ objRet = "none"
    /\ OKRIdle
    /\ FetchIdle
    /\ LockIdle
    /\ ParseIdle

\* A plausible slip: GetKRStatus stores the status it derived in LatestUpdate.
CallGetKRStatusStoring ==
    /\ krRet' = GetKRStatus(iwu)
    /\ iwu' = [iwu EXCEPT !.LatestUpdate = <<Upd(GetKRStatus(iwu))>>]
    /\ UNCHANGED <<objRet, okrVars, fetchVars, lockVars, parseVars>>

CallGetKRStatus ==
    /\ krRet' = GetKRStatus(iwu)
    /\ UNCHANGED <<iwu, objRet, okrVars, fetchVars, lockVars, parseVars>>

CallGetObjectiveStatus ==
    /\ objRet' = GetObjectiveStatus(iwu)
    /\ UNCHANGED <<iwu, krRet, okrVars, fetchVars, lockVars, parseVars>>

StatusNext == CallGetKRStatus \/ CallGetObjectiveStatus

StatusSpec == StatusInit /\ [][StatusNext]_vars

(***************************************************************************)
(* service/okr.go: OKRService.ProcessOKRIssues and its helpers             *)
(***************************************************************************)
MaxIssues == 3      \* longest issue list handed to ProcessOKRIssues

\* The patterns of extractParentIssueNumber, in the order of bodyPatterns
\* (1 = "parent (issue)?:? #N", 2 = "parent ...: <url>/issues/N",
\*  3 = "part of #N", ..., 9 = "blocked by #N").
NumPatterns == 9

\* A text is the sequence of the pieces of references it contains, left to
\* right.  A phrase [pat |-> p, num |-> n] is a match of pattern p capturing
\* the digits n; a keyword is the words of pattern p with no "#<digits>"
\* after them; a number is "#<digits>" with no such words before it.
NoDigits  == 0 - 1      \* in place of the digits of a keyword
BeyondInt == 0 - 2      \* digits whose value is above the largest int

Phrase(p, n) == [pat |-> p, num |-> n]
Keyword(p)   == [pat |-> p, num |-> NoDigits]
Number(n)    == [pat |-> 0, num |-> n]

\* textToSearch := issue.Title + "\n" + issue.Body.  The patterns allow white
\* space, the line break included, between their words and the "#": a
\* keyword that ends the title and a number that begins the body make a
\* phrase (not for pattern 2, which wants a URL).
JoinLines(title, body) ==
    IF /\ title # <<>>
       /\ body # <<>>
       /\ title[Len(title)].num = NoDigits
       /\ title[Len(title)].pat # 2
       /\ body[1].pat = 0
    THEN SubSeq(title, 1, Len(title) - 1)
            \o <<Phrase(title[Len(title)].pat, body[1].num)>> \o Tail(body)
    ELSE title \o body

\* regex.FindStringSubmatch for pattern p: position of the leftmost match in
\* the text, 0 when there is none.
RECURSIVE FindStringSubmatch(_, _, _)
FindStringSubmatch(text, p, k) ==
    IF k > Len(text) THEN 0
    ELSE IF text[k].pat = p /\ text[k].num # NoDigits THEN k
    ELSE FindStringSubmatch(text, p, k + 1)

\* strconv.Atoi of the captured digits
Atoi(num) ==
    IF num = BeyondInt THEN [err |-> TRUE, val |-> 0] ELSE [err |-> FALSE, val |-> num]

\* The loop over bodyPatterns of extractParentIssueNumber: the first pattern
\* whose leftmost match holds digits that Atoi converts decides.
RECURSIVE ExtractWithPattern(_, _)
ExtractWithPattern(text, p) ==
    IF p > NumPatterns THEN 0
    ELSE LET m == FindStringSubmatch(text, p, 1) IN
         IF m > 0 /\ ~Atoi(text[m].num).err THEN Atoi(text[m].num).val
         ELSE ExtractWithPattern(text, p + 1)

\* OKRService.extractParentIssueNumber
extractParentIssueNumber(issue) ==
    ExtractWithPattern(JoinLines(issue.Title, issue.Body), 1)

\* OKRService.hasParentIssue
hasParentIssue(issue) == extractParentIssueNumber(issue) > 0

\* The URL of an issue page, and the URL of a pull request (the search API
\* returns both kinds of items).
IssueURL(n) == <<"https://github.com", "acme", "okr", "issues", n>>
PullURL(n)  == <<"https://github.com", "acme", "okr", "pull", n>>

\* Repository.ExtractOwnerRepoFromIssue: <<owner, repo>>, <<"", "">> when the
\* URL is not that of an issue page.
ExtractOwnerRepoFromIssue(issue) ==
    IF issue.URL # <<>> /\ Len(issue.URL) = 5 /\ issue.URL[4] = "issues"
    THEN <<issue.URL[2], issue.URL[3]>>
    ELSE <<"", "">>

OwnerRepoOK(issue) ==
    LET or == ExtractOwnerRepoFromIssue(issue) IN ~(or[1] = "" \/ or[2] = "")

\* BridgeClient.findParentIssueFromRelationships (behind Repository.FindParentIssue)
findParentIssueFromRelationships(owner, repo, issueNumber) == 0

\* Issue.HasAllLabels
HasAllLabels(issue, required) ==
    IF Len(required) = 0 THEN TRUE
    ELSE \A r \in 1..Len(required) :
            \E l \in 1..Len(issue.Labels) : issue.Labels[l] = required[r]

\* OKRService.filterIssuesByLabels: the pointers that pass, in input order.
filterIssuesByLabels(iss, required) ==
    IF Len(required) = 0 THEN [k \in 1..Len(iss) |-> k]
    ELSE SelectSeq([k \in 1..Len(iss) |-> k],
                   LAMBDA k : HasAllLabels(iss[k], required))

\* Numbers a parent reference may name: 0, the issues' own numbers, and one
\* number that no issue of the list carries.
RefNumbers == 0..(MaxIssues + 1)

EmptyMap == [n \in RefNumbers |-> <<>>]

\* The parent number BuildParentChildRelationships settles on for one issue.
ParentNumOf(issue) ==
    LET parentNum == extractParentIssueNumber(issue)
        or == ExtractOwnerRepoFromIssue(issue)
    IN IF parentNum = 0 /\ or[1] # "" /\ or[2] # ""
       THEN LET apiParentNum == findParentIssueFromRelationships(or[1], or[2], issue.Number)
            IN IF apiParentNum > 0 THEN apiParentNum ELSE parentNum
       ELSE parentNum

\* OKRService.BuildParentChildRelationships: the loop from pointer k on.
RECURSIVE BuildParentChildRelationships(_, _, _, _)
BuildParentChildRelationships(iss, ptrs, k, map) ==
    IF k > Len(ptrs) THEN map
    ELSE LET parentNum == ParentNumOf(iss[ptrs[k]]) IN
         BuildParentChildRelationships(iss, ptrs, k + 1,
            IF parentNum > 0
            THEN [map EXCEPT ![parentNum] = Append(@, ptrs[k])]
            ELSE map)

\* The test of IdentifyObjectivesAndKeyResults for an objective: children
\* recorded under the issue's number, and no parent reference of its own.
IsParentIssue(issue, map) ==
    LET hasChildren == Len(map[issue.Number]) > 0
        hasParent   == hasParentIssue(issue)
    IN hasChildren /\ ~hasParent

\* A plausible slip: an issue with children is typed an objective even when
\* it names a parent itself.
ClassifyIgnoringParent(issue, map) ==
    IF Len(map[issue.Number]) > 0 THEN IssueTypeObjective
    ELSE IF hasParentIssue(issue) THEN IssueTypeKeyResult
    ELSE issue.Type

\* The body of the loop of IdentifyObjectivesAndKeyResults: the Type the
\* issue has after it.
Classify(issue, map) ==
    IF IsParentIssue(issue, map) THEN IssueTypeObjective
    ELSE IF hasParentIssue(issue) THEN IssueTypeKeyResult
    ELSE issue.Type

\* OKRService.IdentifyObjectivesAndKeyResults: the issues after the loop and
\* the returned parentIssues.
IdentifyObjectivesAndKeyResults(iss, ptrs, map) ==
    [issues |-> [k \in 1..Len(iss) |->
                    IF \E j \in 1..Len(ptrs) : ptrs[j] = k
                    THEN [iss[k] EXCEPT !.Type = Classify(iss[k], map)]
                    ELSE iss[k]],
     parentIssues |-> SelectSeq(ptrs, LAMBDA k : IsParentIssue(iss[k], map))]

\* The weekly updates the remote holds for issue n, newest first, as
\* Repository.FetchIssueComments returns them.
WeeklyUpdate(d, c, s) == [Date |-> d, Content |-> c, Author |-> "octocat", Status |-> s]

RemoteUpdates(n) ==
    IF n % 2 = 1
    THEN IF n = 1
         THEN <<WeeklyUpdate("2025-07-09", "weekly update 2025-07-09", StatusUnknown),
                WeeklyUpdate("2025-07-01", "weekly update 2025-07-01 blocked", StatusBlocked)>>
         ELSE <<WeeklyUpdate("2025-07-09", "weekly update 2025-07-09 on track", StatusOnTrack)>>
    ELSE <<>>

\* GitHubRepository.FetchIssueComments as the service sees it: the updates,
\* or nil with an error (ok = FALSE).
FetchIssueComments(n, ok) == IF ok THEN RemoteUpdates(n) ELSE <<>>

\* A plausible slip: LatestUpdate is taken from the end of the list.
NodeOfOldest(issue, updates) ==
    IWU(issue,
        IF Len(updates) > 0 THEN <<updates[Len(updates)]>> ELSE NilUpdate,
        updates, <<>>)

\* The IssueWithUpdates built from a copy of the issue and its updates.
NodeOf(issue, updates) ==
    IWU(issue,
        IF Len(updates) > 0 THEN <<updates[1]>> ELSE NilUpdate,
        updates, <<>>)

\* children := parentChildMap[objective.Number] of the objective in hand
ChildrenOf(objective) == parentChildMap[issues[objective].Number]

(***************************************************************************)
(* Inputs of ProcessOKRIssues                                              *)
(***************************************************************************)
OKRLabel == "kind/okr"

\* An issue without reference in title or body
NoText == [Title |-> <<>>, Body |-> <<>>]

\* Titles and bodies of issue n: no reference, or "Parent Issue: #m" for
\* every m; for issue #2 also three other ways of naming #1: a title saying
\* "part of #<outside>" over a body saying "Parent Issue: #1", a title ending
\* in "Parent" over a body beginning with "#1", and a body saying
\* "Parent: #<twenty digits> part of #1".
TextPool(n) ==
    {NoText}
    \cup {[Title |-> <<>>, Body |-> <<Phrase(1, m)>>] : m \in 1..(MaxIssues + 1)}
    \cup (IF n = 2
          THEN {[Title |-> <<Phrase(3, MaxIssues + 1)>>, Body |-> <<Phrase(1, 1)>>],
                [Title |-> <<Keyword(1)>>, Body |-> <<Number(1)>>],
                [Title |-> <<>>, Body |-> <<Phrase(1, BeyondInt), Phrase(3, 1)>>]}
          ELSE {})

\* The texts of the issues that carry a pull-request URL (the search API
\* returns pull requests as issues): #1 without reference, #2 naming #1.
PullTextPool(n) ==
    IF n = 1 THEN {NoText}
    ELSE IF n = 2 THEN {[Title |-> <<>>, Body |-> <<Phrase(1, 1)>>]}
    ELSE {}

\* entity.Issue as convertGitHubIssuesToDomain builds it (Type unset).
NewIssue(n, text, url, labels) ==
    [Number |-> n, Title |-> text.Title, Body |-> text.Body, URL |-> url,
     Type |-> IssueTypeUnset, State |-> "open", Labels |-> labels]

\* Issue n of the list: labelled, with the URL of its issue page or with a
\* pull-request URL, or unlabelled (the filter drops it before its text or
\* URL is read).
IssuePool(n) ==
    {NewIssue(n, t, IssueURL(n), <<OKRLabel>>) : t \in TextPool(n)}
    \cup {NewIssue(n, t, PullURL(n), <<OKRLabel>>) : t \in PullTextPool(n)}
    \cup {NewIssue(n, NoText, IssueURL(n), <<>>)}

\* The issues of the repository as one fetch without retry returns them:
\* each issue once, #k at position k.
FetchedOnce ==
    UNION {{l \in [1..len -> UNION {IssuePool(n) : n \in 1..len}] :
                \A k \in 1..len : l[k].Number = k} : len \in 0..MaxIssues}

\* What fetchIssuesBySearchQuery returns after a retry: allIssues is declared
\* outside the closure retryWithBackoff runs again, so the pages a failed
\* attempt had appended come first and the whole list follows.  FetchOKRData
\* hands the list on as it is, and convertGitHubIssuesToDomain builds an
\* entity.Issue of its own for every element.  The issues are labelled,
\* carry the URL of their issue page and name #1 as parent or none.
FetchedWithRetry ==
    LET texts == {NoText, [Title |-> <<>>, Body |-> <<Phrase(1, 1)>>]}
        whole == UNION {{l \in [1..len -> {NewIssue(n, t, IssueURL(n), <<OKRLabel>>) :
                                              n \in 1..len, t \in texts}] :
                            \A k \in 1..len : l[k].Number = k} : len \in 2..MaxIssues}
    IN  UNION {{SubSeq(l, 1, k) \o l : k \in 1..(Len(l) - 1)} : l \in whole}

\* The lists FetchOKRData hands to ProcessOKRIssues.
IssueLists == FetchedOnce \cup FetchedWithRetry

OKRInit ==
    /\ issues \in IssueLists
    /\ requiredLabels \in {<<>>, <<OKRLabel>>}
    /\ pc = "start"
    /\ filteredIssues = <<>>
    /\ parentChildMap = EmptyMap
    /\ parentIssues = <<>>
    /\ usedFallback = FALSE
    /\ objIdx = 0
    /\ cur = <<>>
    /\ childIdx = 0
    /\ objectives = <<>>
    /\ ret = <<>>
    /\ iwu = IWU(Iss(1, IssueTypeUnset, "open"), NilUpdate, <<>>, <<>>)
    /\ krRet = "none"
    /\ objRet = "none"
    /\ FetchIdle
    /\ LockIdle
    /\ ParseIdle

\* okr.go:78-92: filter, return early on an empty set, build the map.
FilterAndBuild ==
    /\ pc = "start"
    /\ LET f == filterIssuesByLabels(issues, requiredLabels) IN
        /\ filteredIssues' = f
        /\ IF Len(f) = 0
           THEN /\ pc' = "done"
                /\ ret' = <<>>
                /\ UNCHANGED parentChildMap
           ELSE /\ pc' = "built"
                /\ parentChildMap' = BuildParentChildRelationships(issues, f, 1, EmptyMap)
                /\ UNCHANGED ret
    /\ UNCHANGED <<issues, requiredLabels, parentIssues, usedFallback, objIdx,
                   cur, childIdx, objectives, statusVars, fetchVars, lockVars, parseVars>>

\* okr.go:95-98: IdentifyObjectivesAndKeyResults.
Identify ==
    /\ pc = "built"
    /\ LET r == IdentifyObjectivesAndKeyResults(issues, filteredIssues, parentChildMap) IN
        /\ issues' = r.issues
        /\ parentIssues' = r.parentIssues
    /\ pc' = "identified"
    /\ UNCHANGED <<requiredLabels, filteredIssues, parentChildMap, usedFallback,
                   objIdx, cur, childIdx, objectives, ret, statusVars, fetchVars, lockVars, parseVars>>

\* okr.go:100-107: with no objective found, every filtered issue becomes one.
Fallback ==
    /\ pc = "identified"
    /\ IF Len(parentIssues) = 0
       THEN /\ issues' = [k \in 1..Len(issues) |->
                            IF \E j \in 1..Len(filteredIssues) : filteredIssues[j] = k
                            THEN [issues[k] EXCEPT !.Type = IssueTypeObjective]
                            ELSE issues[k]]
            /\ parentIssues' = filteredIssues
            /\ usedFallback' = TRUE
       ELSE UNCHANGED <<issues, parentIssues, usedFallback>>
    /\ pc' = "processing"
    /\ UNCHANGED <<requiredLabels, filteredIssues, parentChildMap, objIdx,
                   cur, childIdx, objectives, ret, statusVars, fetchVars, lockVars, parseVars>>

\* okr.go:111-117 and 344-347: the next objective is taken up; when owner
\* and repo cannot be read from its URL the error is logged and the loop
\* goes on, otherwise its comments are asked for.
BeginObjective ==
    /\ pc = "processing"
    /\ objIdx < Len(parentIssues)
    /\ IF ~OwnerRepoOK(issues[parentIssues[objIdx + 1]])
       THEN /\ objIdx' = objIdx + 1
            /\ UNCHANGED pc
       ELSE /\ pc' = "objective"
            /\ UNCHANGED objIdx
    /\ UNCHANGED <<issues, requiredLabels, filteredIssues, parentChildMap, parentIssues,
                   usedFallback, cur, childIdx, objectives, ret,
                   statusVars, fetchVars, lockVars, parseVars>>

\* okr.go:349-369: FetchIssueComments for the objective returns, with the
\* updates or with an error, and the node is built from a copy of the issue.
FetchObjective ==
    /\ pc = "objective"
    /\ LET objective == parentIssues[objIdx + 1] IN
       \E ok \in BOOLEAN :
          cur' = <<NodeOf(issues[objective],
                          FetchIssueComments(issues[objective].Number, ok))>>
    /\ childIdx' = 0
    /\ pc' = "children"
    /\ UNCHANGED <<issues, requiredLabels, filteredIssues, parentChildMap, parentIssues,
                   usedFallback, objIdx, objectives, ret,
                   statusVars, fetchVars, lockVars, parseVars>>

\* okr.go:372-379: the next child is typed a key result through its pointer;
\* when owner and repo cannot be read from its URL it is skipped, otherwise
\* its comments are asked for.
RetypeChild ==
    /\ pc = "children"
    /\ childIdx < Len(ChildrenOf(parentIssues[objIdx + 1]))
    /\ LET c == ChildrenOf(parentIssues[objIdx + 1])[childIdx + 1] IN
        /\ issues' = [issues EXCEPT ![c].Type = IssueTypeKeyResult]
        /\ IF ~OwnerRepoOK(issues[c])
           THEN /\ childIdx' = childIdx + 1
                /\ UNCHANGED pc
           ELSE /\ pc' = "child"
                /\ UNCHANGED childIdx
    /\ UNCHANGED <<requiredLabels, filteredIssues, parentChildMap, parentIssues,
                   usedFallback, objIdx, cur, objectives, ret,
                   statusVars, fetchVars, lockVars, parseVars>>

\* A plausible slip: a child whose comments cannot be fetched is skipped,
\* as a child with an unusable URL is.
FetchChildSkippingFailed ==
    /\ pc = "child"
    /\ LET c == ChildrenOf(parentIssues[objIdx + 1])[childIdx + 1] IN
       \E ok \in BOOLEAN :
          cur' = IF ok
                 THEN <<[cur[1] EXCEPT !.ChildIssues =
                            Append(@, NodeOf(issues[c],
                                             FetchIssueComments(issues[c].Number, ok)))]>>
                 ELSE cur
    /\ childIdx' = childIdx + 1
    /\ pc' = "children"
    /\ UNCHANGED <<issues, requiredLabels, filteredIssues, parentChildMap, parentIssues,
                   usedFallback, objIdx, objectives, ret,
                   statusVars, fetchVars, lockVars, parseVars>>

\* okr.go:381-403: FetchIssueComments for the child returns, with the
\* updates or with an error, and the child's node is appended to ChildIssues.
FetchChild ==
    /\ pc = "child"
    /\ LET c == ChildrenOf(parentIssues[objIdx + 1])[childIdx + 1] IN
       \E ok \in BOOLEAN :
          cur' = <<[cur[1] EXCEPT !.ChildIssues =
                       Append(@, NodeOf(issues[c],
                                        FetchIssueComments(issues[c].Number, ok)))]>>
    /\ childIdx' = childIdx + 1
    /\ pc' = "children"
    /\ UNCHANGED <<issues, requiredLabels, filteredIssues, parentChildMap, parentIssues,
                   usedFallback, objIdx, objectives, ret,
                   statusVars, fetchVars, lockVars, parseVars>>

\* okr.go:406 and 118: the child loop is over, the node is returned and
\* appended to objectives.
FinishObjective ==
    /\ pc = "children"
    /\ childIdx = Len(ChildrenOf(parentIssues[objIdx + 1]))
    /\ objectives' = Append(objectives, cur[1])
    /\ cur' = <<>>
    /\ childIdx' = 0
    /\ objIdx' = objIdx + 1
    /\ pc' = "processing"
    /\ UNCHANGED <<issues, requiredLabels, filteredIssues, parentChildMap, parentIssues,
                   usedFallback, ret, statusVars, fetchVars, lockVars, parseVars>>

\* okr.go:121-123: the loop is over, the objectives are returned.
Return ==
    /\ pc = "processing"
    /\ objIdx = Len(parentIssues)
    /\ ret' = objectives
    /\ pc' = "done"
    /\ UNCHANGED <<issues, requiredLabels, filteredIssues, parentChildMap,
                   parentIssues, usedFallback, objIdx, cur, childIdx, objectives,
                   statusVars, fetchVars, lockVars, parseVars>>

OKRNext ==
    \/ FilterAndBuild
    \/ Identify
    \/ Fallback
    \/ BeginObjective
    \/ FetchObjective
    \/ RetypeChild
    \/ FetchChild
    \/ FinishObjective
    \/ Return

OKRSpec == OKRInit /\ [][OKRNext]_vars

(***************************************************************************)
(* BridgeClient: retryWithBackoff, fetchIssuesBySearchQuery,               *)
(* fetchIssueComments, and the APICache and ClientStats they use           *)
(***************************************************************************)
MaxRetriesCfg == 2      \* largest GitHub.MaxRetries a configuration sets
MaxCalls      == 2      \* fetch operations one client runs
MaxTime       == 8      \* minutes the clock runs
TickMinutes   == 4      \* minutes the clock advances in one step
SearchTotal   == 3      \* issues matching the search query on the remote
CommentsTotal == 150    \* comments of issue #1 on the remote

DefaultMaxRetries  == 3       \* fetchIssuesBySearchQuery: maxRetries := 3
CommentsMaxRetries == 3       \* fetchIssueComments: retryWithBackoff(3, ...)
DefaultPageSize    == 100     \* fetchIssuesBySearchQuery: pageSize := 100
CommentsPerPage    == 100     \* fetchIssueComments: PerPage: 100
DefaultMaxIssues   == 10000   \* fetchIssuesBySearchQuery: maxIssues := 10000
DefaultIssuesTTL   == 10      \* cacheTTL := 10 * time.Minute
CommentsTTL        == 5       \* SetCache(cacheKey, allComments, 5*time.Minute)
AccessMaxRetries   == 3       \* testBasicAccess: retryWithBackoff(3, ...)
ProjectsMaxRetries == 3       \* listOrganizationProjects: retryWithBackoff(3, ...)

\* An error message is the sequence of its parts; strings.Contains(msg, s)
\* holds when s is one of the parts.
Contains(msg, part) == \E k \in 1..Len(msg) : msg[k] = part

\* BridgeClient.isRetryableError: the retryableErrors list
retryableErrors ==
    {"timeout", "connection reset", "connection refused", "temporary failure",
     "rate limit", "server error", "503", "502", "500"}

\* BridgeClient.isRetryableError
isRetryableError(err) == \E r \in retryableErrors : Contains(err, r)

\* What the API client reports for one failed request: the outcome part of
\* the error text (lower case, as isRetryableError reads it).
TransientAPIErrors == {<<"connection reset">>}
PermanentAPIErrors == {<<"404 not found">>}
APIErrors == TransientAPIErrors \cup PermanentAPIErrors

\* The operations a caller starts: a search (the empty query is refused),
\* the comment listing of an issue, the access test of an organization and
\* the listing of its projects.
Ops ==
    {[kind |-> "search", arg |-> q] : q \in {"is:issue", ""}}
    \cup {[kind |-> "comments", arg |-> n] : n \in {1, 500}}
    \cup {[kind |-> "access", arg |-> "acme"], [kind |-> "projects", arg |-> "acme"]}

\* The operations that page through a list, look in the cache first and
\* store what they fetched; testBasicAccess and listOrganizationProjects
\* send one request and use no cache.
Paginated(op) == op.kind \in {"search", "comments"}

\* The decimal text of an issue number (%d).
NumberText(n) == IF n = 500 THEN "500" ELSE "1"

\* The request an API error names: err.Error() of the client's error carries
\* the method and URL of the failed request, and the URL carries the query or
\* the issue number.
RequestText(op) ==
    IF op.kind = "search"
    THEN <<"get ", "search/issues?q=", "repo:acme/okr ", op.arg>>
    ELSE IF op.kind = "comments"
    THEN <<"get ", "repos/acme/okr/issues/", NumberText(op.arg), "/comments">>
    ELSE IF op.kind = "access" THEN <<"get ", "orgs/", op.arg>>
    ELSE <<"get ", "orgs/", op.arg, "/projects">>

\* cacheKey := fmt.Sprintf("search:%s/%s:%s" | "comments:%s/%s:%d", ...)
CacheKey(op) == <<op.kind, "acme", "okr", op.arg>>

CacheKeys == {CacheKey(op) : op \in {o \in Ops : Paginated(o)}}

\* Number of items the remote holds for an operation.
RemoteTotal(op) ==
    IF op.kind = "search" THEN SearchTotal
    ELSE IF op.kind = "comments" /\ op.arg = 1 THEN CommentsTotal
    ELSE 0

\* pageSize of the search, PerPage of the comment listing
PerPage(op) ==
    IF op.kind = "search"
    THEN IF config.GitHub.PageSize > 0 THEN config.GitHub.PageSize ELSE DefaultPageSize
    ELSE CommentsPerPage

\* The items of page k (k >= 1) as the range of their ranks, and resp.NextPage.
PageItems(op, k) ==
    LET from == (k - 1) * PerPage(op) + 1
        to   == IF k * PerPage(op) < RemoteTotal(op) THEN k * PerPage(op) ELSE RemoteTotal(op)
    IN IF from <= to THEN <<[from |-> from, to |-> to]>> ELSE <<>>

NextPage(op, k) == IF k * PerPage(op) < RemoteTotal(op) THEN k + 1 ELSE 0

\* len(allIssues): the accumulator is the sequence of appended ranges.
RECURSIVE LenItems(_)
LenItems(items) ==
    IF items = <<>> THEN 0
    ELSE (items[1].to - items[1].from + 1) + LenItems(Tail(items))

\* maxIssues of fetchIssuesBySearchQuery
MaxIssuesOf(cfg) ==
    IF cfg.GitHub.MaxIssuesLimit > 0 THEN cfg.GitHub.MaxIssuesLimit ELSE DefaultMaxIssues

\* The maxRetries each operation hands to retryWithBackoff.
MaxRetriesOf(op, cfg) ==
    IF op.kind = "search"
    THEN IF cfg.GitHub.MaxRetries > 0 THEN cfg.GitHub.MaxRetries ELSE DefaultMaxRetries
    ELSE IF op.kind = "comments" THEN CommentsMaxRetries
    ELSE IF op.kind = "access" THEN AccessMaxRetries
    ELSE ProjectsMaxRetries

\* cacheTTL of each operation
CacheTTLOf(op, cfg) ==
    IF op.kind = "search"
    THEN IF cfg.Cache.IssuesTTLMin > 0 THEN cfg.Cache.IssuesTTLMin ELSE DefaultIssuesTTL
    ELSE CommentsTTL

\* The error an operation body returns for an API error:
\* fmt.Errorf("error searching issues: %v", err).
WrapError(op, e) ==
    IF op.kind = "search" THEN <<"error searching issues: ">> \o RequestText(op) \o e
    ELSE IF op.kind = "comments"
    THEN <<"error fetching comments: ">> \o RequestText(op) \o e
    ELSE IF op.kind = "access"
    THEN <<"failed to access organization ", op.arg, ": ">> \o RequestText(op) \o e
    ELSE <<"failed to list projects for organization ", op.arg, ": ">>
            \o RequestText(op) \o e

NoEntry == <<>>

\* A plausible slip: the expiry test the wrong way round.
GetFromCacheInverted(data, key, t) ==
    IF data[key] = NoEntry THEN [found |-> FALSE, data |-> <<>>, map |-> data]
    ELSE IF t < data[key][1].ExpiresAt
         THEN [found |-> FALSE, data |-> <<>>, map |-> [data EXCEPT ![key] = NoEntry]]
         ELSE [found |-> TRUE, data |-> data[key][1].Data, map |-> data]

\* APICache.GetFromCache: found, the data, and the map after the call (an
\* expired entry is deleted by the lookup).
GetFromCache(data, key, t) ==
    IF data[key] = NoEntry THEN [found |-> FALSE, data |-> <<>>, map |-> data]
    ELSE IF t > data[key][1].ExpiresAt
         THEN [found |-> FALSE, data |-> <<>>, map |-> [data EXCEPT ![key] = NoEntry]]
         ELSE [found |-> TRUE, data |-> data[key][1].Data, map |-> data]

\* A plausible slip: the entry is stored without its payload.
SetCacheNoPayload(data, key, payload, ttl, t) ==
    [data EXCEPT ![key] = <<[Data |-> <<>>, ExpiresAt |-> t + ttl]>>]

\* APICache.SetCache
SetCache(data, key, payload, ttl, t) ==
    [data EXCEPT ![key] = <<[Data |-> payload, ExpiresAt |-> t + ttl]>>]

\* Config as the client reads it (0 = the field is not set).
Config(r, ps, mi, ce) ==
    [GitHub |-> [MaxRetries |-> r, PageSize |-> ps, MaxIssuesLimit |-> mi],
     Performance |-> [CacheEnabled |-> ce],
     Cache |-> [IssuesTTLMin |-> 0]]

\* The configurations a client is built with: every retry setting with a
\* small page size, the defaults, and an issue limit below and at the size
\* of the first page.
Configs ==
    {Config(r, 2, 0, ce) : r \in 0..MaxRetriesCfg, ce \in BOOLEAN}
    \cup {Config(0, 0, 0, ce) : ce \in BOOLEAN}
    \cup {Config(MaxRetriesCfg, 2, mi, ce) : mi \in {1, 2}, ce \in BOOLEAN}

\* The configurations under which a caller's cancellation is followed: the
\* defaults, with and without the cache.
CancelConfigs == {Config(0, 0, 0, ce) : ce \in BOOLEAN}

NoCall == [kind |-> "none", arg |-> 0]
NoResult == [status |-> "none", err |-> <<>>, data |-> <<>>]
NoSnapshot == <<>>
NotCancelled == <<>>

nonFetchVars == <<statusVars, okrVars, lockVars, parseVars>>

\* NewBridgeClient
NewBridgeClient(cfgs) ==
    /\ config \in cfgs
    /\ fpc = "idle"
    /\ call = NoCall
    /\ maxRetries = 0
    /\ attemptI = 0
    /\ page = 0
    /\ allItems = <<>>
    /\ bodyRuns = 0
    /\ attemptErrs = <<>>
    /\ stats = [APICallsCount |-> 0, CacheHitsCount |-> 0, ErrorsCount |-> 0,
                RetryCount |-> 0]
    /\ cache = [k \in CacheKeys |-> NoEntry]
    /\ now = 0
    /\ result = NoResult
    /\ calls = 0
    /\ tokens = 0
    /\ atCall = NoSnapshot
    /\ fetched = [k \in CacheKeys |-> <<>>]
    /\ cancelled = NotCancelled
    /\ iwu = IWU(Iss(1, IssueTypeUnset, "open"), NilUpdate, <<>>, <<>>)
    /\ krRet = "none"
    /\ objRet = "none"
    /\ OKRIdle
    /\ LockIdle
    /\ ParseIdle

\* A fetch operation up to the call of retryWithBackoff: the empty query is
\* refused, a live cache entry is returned, otherwise the retry loop starts
\* with i = 0; testBasicAccess and listOrganizationProjects start the loop
\* at once.
StartFetch ==
    /\ fpc = "idle"
    /\ calls < MaxCalls
    /\ atCall' = [stats |-> stats, cache |-> cache]
    /\ \E op \in Ops :
        /\ call' = op
        /\ UNCHANGED <<bodyRuns, attemptErrs, attemptI, page, allItems>>
        /\ IF op.kind = "search" /\ op.arg = ""
           THEN /\ result' = [status |-> "err", err |-> <<"no search query specified">>,
                              data |-> <<>>]
                /\ fpc' = "done"
                /\ UNCHANGED <<maxRetries, stats, cache>>
           ELSE LET got == IF config.Performance.CacheEnabled /\ Paginated(op)
                           THEN GetFromCache(cache, CacheKey(op), now)
                           ELSE [found |-> FALSE, data |-> <<>>, map |-> cache]
                IN /\ cache' = got.map
                   /\ IF got.found
                      THEN /\ stats' = [stats EXCEPT !.CacheHitsCount = @ + 1]
                           /\ result' = [status |-> "ok", err |-> <<>>, data |-> got.data]
                           /\ fpc' = "done"
                           /\ UNCHANGED maxRetries
                      ELSE /\ maxRetries' = MaxRetriesOf(op, config)
                           /\ result' = NoResult
                           /\ fpc' = "attempt"
                           /\ UNCHANGED stats
    /\ UNCHANGED <<config, now, calls, tokens, fetched, cancelled, nonFetchVars>>

\* A plausible slip: every iteration of the loop counts as a retry, the first
\* included.
BeginAttemptCountsFirst ==
    /\ fpc = "attempt"
    /\ stats' = [stats EXCEPT !.RetryCount = @ + 1]
    /\ IF attemptI > 0
       THEN /\ fpc' = "sleep"
            /\ UNCHANGED <<bodyRuns, page>>
       ELSE /\ bodyRuns' = bodyRuns + 1
            /\ page' = 0
            /\ fpc' = "page"
    /\ UNCHANGED <<config, call, maxRetries, attemptI, allItems, attemptErrs, cache,
                   now, result, calls, tokens, atCall, fetched, cancelled, nonFetchVars>>

\* retryWithBackoff, top of the loop body: from the second iteration on the
\* retry is counted and the backoff sleep begins; the first iteration starts
\* the operation body, with fresh page options, at once.
BeginAttempt ==
    /\ fpc = "attempt"
    /\ IF attemptI > 0
       THEN /\ stats' = [stats EXCEPT !.RetryCount = @ + 1]
            /\ fpc' = "sleep"
            /\ UNCHANGED <<bodyRuns, page>>
       ELSE /\ bodyRuns' = bodyRuns + 1
            /\ page' = 0
            /\ fpc' = "page"
            /\ UNCHANGED stats
    /\ UNCHANGED <<config, call, maxRetries, attemptI, allItems, attemptErrs, cache,
                   now, result, calls, tokens, atCall, fetched, cancelled, nonFetchVars>>

\* time.Sleep(delay) is over: the operation body starts again, with fresh
\* page options.
EndBackoff ==
    /\ fpc = "sleep"
    /\ bodyRuns' = bodyRuns + 1
    /\ page' = 0
    /\ fpc' = "page"
    /\ UNCHANGED <<config, call, maxRetries, attemptI, allItems, attemptErrs, stats,
                   cache, now, result, calls, tokens, atCall, fetched, cancelled,
                   nonFetchVars>>

\* A plausible slip: the limiter is consulted once per run of the body,
\* before its first page only.
WaitForRateLimitFirstPageOnly ==
    /\ fpc = "page"
    /\ tokens' = IF page = 0 THEN tokens + 1 ELSE tokens
    /\ fpc' = "request"
    /\ UNCHANGED <<config, call, maxRetries, attemptI, page, allItems, bodyRuns,
                   attemptErrs, stats, cache, now, result, calls, atCall, fetched,
                   cancelled, nonFetchVars>>

\* Top of the page loop: b.waitForRateLimit() takes one token of the client's
\* limiter.  The limiter waits on b.ctx, which is context.Background(), and a
\* single token never exceeds the burst of 10, so the wait always succeeds.
WaitForRateLimit ==
    /\ fpc = "page"
    /\ tokens' = tokens + 1
    /\ fpc' = "request"
    /\ UNCHANGED <<config, call, maxRetries, attemptI, page, allItems, bodyRuns,
                   attemptErrs, stats, cache, now, result, calls, atCall, fetched,
                   cancelled, nonFetchVars>>

\* b.stats.IncrementAPICall() and the request goes out.
SendRequest ==
    /\ fpc = "request"
    /\ stats' = [stats EXCEPT !.APICallsCount = @ + 1]
    /\ fpc' = "inflight"
    /\ UNCHANGED <<config, call, maxRetries, attemptI, page, allItems, bodyRuns,
                   attemptErrs, cache, now, result, calls, tokens, atCall, fetched,
                   cancelled, nonFetchVars>>

\* The call returns allIssues / allComments after caching them.
Succeed(items) ==
    /\ cache' = IF config.Performance.CacheEnabled
                THEN SetCache(cache, CacheKey(call), items, CacheTTLOf(call, config), now)
                ELSE cache
    /\ result' = [status |-> "ok", err |-> <<>>, data |-> items]
    /\ fetched' = [fetched EXCEPT ![CacheKey(call)] =
                      <<[data |-> items, at |-> now,
                         hits |-> stats.CacheHitsCount - atCall.stats.CacheHitsCount]>>]
    /\ fpc' = "done"

\* The answer to the request is in: an API error, on which retryWithBackoff
\* decides, or a response.  The response to testBasicAccess or
\* listOrganizationProjects ends the call; a page is appended and the loop
\* goes on or ends.
RequestPage ==
    /\ fpc = "inflight"
    /\ \/ \E e \in APIErrors :
            /\ attemptErrs' = Append(attemptErrs, e)
            /\ IF attemptI = maxRetries - 1 \/ ~isRetryableError(WrapError(call, e))
               THEN /\ stats' = [stats EXCEPT !.ErrorsCount = @ + 1]
                    /\ result' = [status |-> "err", err |-> WrapError(call, e),
                                  data |-> <<>>]
                    /\ fpc' = "done"
                    /\ UNCHANGED attemptI
               ELSE /\ attemptI' = attemptI + 1
                    /\ fpc' = "attempt"
                    /\ UNCHANGED <<result, stats>>
            /\ UNCHANGED <<allItems, page, cache, fetched>>
       \/ /\ ~Paginated(call)
          /\ result' = [status |-> "ok", err |-> <<>>, data |-> <<>>]
          /\ fpc' = "done"
          /\ UNCHANGED <<attemptErrs, attemptI, stats, allItems, page, cache, fetched>>
       \/ /\ Paginated(call)
          /\ LET k     == IF page = 0 THEN 1 ELSE page
                 items == allItems \o PageItems(call, k)
                 next  == NextPage(call, k)
             IN /\ allItems' = items
                /\ UNCHANGED <<attemptErrs, attemptI, stats>>
                /\ IF next = 0
                   THEN /\ Succeed(items)
                        /\ UNCHANGED page
                   ELSE /\ page' = next
                        /\ IF call.kind = "search" /\ LenItems(items) > MaxIssuesOf(config)
                           THEN Succeed(items)
                           ELSE /\ fpc' = "page"
                                /\ UNCHANGED <<cache, result, fetched>>
    /\ UNCHANGED <<config, call, maxRetries, bodyRuns, now, calls, tokens, atCall,
                   cancelled, nonFetchVars>>

\* The caller has its answer; the client is free for the next call.
FinishCall ==
    /\ fpc = "done"
    /\ fpc' = "idle"
    /\ calls' = calls + 1
    /\ call' = NoCall
    /\ result' = NoResult
    /\ maxRetries' = 0
    /\ attemptI' = 0
    /\ page' = 0
    /\ allItems' = <<>>
    /\ bodyRuns' = 0
    /\ attemptErrs' = <<>>
    /\ atCall' = NoSnapshot
    /\ cancelled' = NotCancelled
    /\ UNCHANGED <<config, stats, cache, now, tokens, fetched, nonFetchVars>>

\* Time passes: between two calls, during the backoff sleep and while a
\* request is under way.
Tick ==
    /\ fpc \in {"idle", "sleep", "inflight"}
    /\ now + TickMinutes <= MaxTime
    /\ now' = now + TickMinutes
    /\ UNCHANGED <<config, fpc, call, maxRetries, attemptI, page, allItems, bodyRuns,
                   attemptErrs, stats, cache, result, calls, tokens, atCall, fetched,
                   cancelled, nonFetchVars>>

FetchInit == NewBridgeClient(Configs)

FetchNext ==
    \/ StartFetch
    \/ BeginAttempt
    \/ EndBackoff
    \/ WaitForRateLimit
    \/ SendRequest
    \/ RequestPage
    \/ FinishCall
    \/ Tick

FetchSpec == FetchInit /\ [][FetchNext]_vars

\* The caller cancels the context it passed to the Repository method while
\* the operation sleeps in the retry backoff or waits for a rate-limiter
\* token.  Neither method hands its ctx to
\* the client, whose waits and requests use b.ctx = context.Background():
\* no step of the operation reads the cancellation.
CancelCaller ==
    /\ fpc \in {"sleep", "page"}
    /\ cancelled = NotCancelled
    /\ cancelled' = <<[APICallsCount |-> stats.APICallsCount, bodyRuns |-> bodyRuns,
                       sleeping |-> (fpc = "sleep")]>>
    /\ UNCHANGED <<config, fpc, call, maxRetries, attemptI, page, allItems, bodyRuns,
                   attemptErrs, stats, cache, now, result, calls, tokens, atCall,
                   fetched, nonFetchVars>>

CancelNext == FetchNext \/ CancelCaller

CancelSpec == NewBridgeClient(CancelConfigs) /\ [][CancelNext]_vars

(***************************************************************************)
(* APICache used by several goroutines: GetFromCache, SetCache,            *)
(* ClearExpired under c.mu                                                 *)
(***************************************************************************)
NumGoroutines == 2      \* goroutines sharing one APICache

Goroutines == 1..NumGoroutines
LockKeys == {"k1", "k2"}
NoOp == [m |-> "none", key |-> ""]
NoWriter == 0

\* The positions at which a goroutine is reading c.data and at which it is
\* changing it.
ReadingMap == {"lookup"}
MutatingMap == {"delete", "store", "sweep"}

\* APICache.ClearExpired: the map after the sweep
ClearExpired(data, t) ==
    [k \in DOMAIN data |->
        IF data[k] # NoEntry /\ t > data[k][1].ExpiresAt THEN NoEntry ELSE data[k]]

\* Another goroutine is changing c.data right now.
OtherMutating(g) == \E h \in Goroutines \ {g} : gpc[h] \in MutatingMap

\* Another goroutine is reading or changing c.data right now.
OtherAccessing(g) == \E h \in Goroutines \ {g} : gpc[h] \in ReadingMap \cup MutatingMap

LockInit ==
    /\ gpc = [g \in Goroutines |-> "idle"]
    /\ gop = [g \in Goroutines |-> NoOp]
    /\ rw = [readers |-> {}, writer |-> NoWriter]
    /\ fatal = FALSE
    /\ cache = [k \in LockKeys |-> NoEntry]
    /\ now = 0
    /\ config = <<>>
    /\ fpc = "off"
    /\ call = <<>>
    /\ maxRetries = 0
    /\ attemptI = 0
    /\ page = 0
    /\ allItems = <<>>
    /\ bodyRuns = 0
    /\ attemptErrs = <<>>
    /\ stats = <<>>
    /\ result = <<>>
    /\ calls = 0
    /\ tokens = 0
    /\ atCall = <<>>
    /\ fetched = <<>>
    /\ cancelled = <<>>
    /\ iwu = IWU(Iss(1, IssueTypeUnset, "open"), NilUpdate, <<>>, <<>>)
    /\ krRet = "none"
    /\ objRet = "none"
    /\ OKRIdle
    /\ ParseIdle

lockOthers == <<config, fpc, call, maxRetries, attemptI, page, allItems, bodyRuns,
                attemptErrs, stats, result, calls, tokens, atCall, fetched, cancelled,
                statusVars, okrVars, parseVars>>

\* GetFromCache, c.mu.RLock(): granted while no goroutine holds the write
\* lock; the goroutine then reads c.data[key].
GetRLock(g) ==
    /\ ~fatal
    /\ gpc[g] = "idle"
    /\ rw.writer = NoWriter
    /\ \E k \in LockKeys : gop' = [gop EXCEPT ![g] = [m |-> "get", key |-> k]]
    /\ rw' = [rw EXCEPT !.readers = @ \cup {g}]
    /\ gpc' = [gpc EXCEPT ![g] = "lookup"]
    /\ UNCHANGED <<cache, now, fatal, lockOthers>>

\* GetFromCache, infrastructure.go:104-115: the read of c.data[key] ends.  A
\* missing or live entry is returned and the read lock released (deferred
\* RUnlock); an expired entry makes the goroutine go on to delete it.  A read
\* that overlapped another goroutine's change of the map is a data race: the
\* runtime may stop the process, or the read sees the entry either way.
GetLookup(g) ==
    /\ ~fatal
    /\ gpc[g] = "lookup"
    /\ \E crash \in (IF OtherMutating(g) THEN BOOLEAN ELSE {FALSE}),
          seen \in (IF OtherMutating(g) THEN {cache[gop[g].key], NoEntry}
                    ELSE {cache[gop[g].key]}) :
        /\ fatal' = crash
        /\ IF crash
           THEN UNCHANGED <<gpc, gop, rw>>
           ELSE IF seen # NoEntry /\ now > seen[1].ExpiresAt
                THEN /\ gpc' = [gpc EXCEPT ![g] = "delete"]
                     /\ UNCHANGED <<gop, rw>>
                ELSE /\ gpc' = [gpc EXCEPT ![g] = "idle"]
                     /\ gop' = [gop EXCEPT ![g] = NoOp]
                     /\ rw' = [rw EXCEPT !.readers = @ \ {g}]
    /\ UNCHANGED <<cache, now, lockOthers>>

\* GetFromCache, infrastructure.go:111-112: delete(c.data, key) ends and the
\* read lock is released.  If another goroutine was reading or changing the
\* map meanwhile, the runtime may stop the process.
GetDelete(g) ==
    /\ ~fatal
    /\ gpc[g] = "delete"
    /\ \E crash \in (IF OtherAccessing(g) THEN BOOLEAN ELSE {FALSE}) :
        /\ fatal' = crash
        /\ IF crash
           THEN UNCHANGED <<gpc, gop, rw, cache>>
           ELSE /\ cache' = [cache EXCEPT ![gop[g].key] = NoEntry]
                /\ gpc' = [gpc EXCEPT ![g] = "idle"]
                /\ gop' = [gop EXCEPT ![g] = NoOp]
                /\ rw' = [rw EXCEPT !.readers = @ \ {g}]
    /\ UNCHANGED <<now, lockOthers>>

\* SetCache / ClearExpired, c.mu.Lock(): granted while no goroutine holds
\* the lock in either mode.
WriteLock(g) ==
    /\ ~fatal
    /\ gpc[g] = "idle"
    /\ rw.writer = NoWriter
    /\ rw.readers = {}
    /\ \/ /\ \E k \in LockKeys : gop' = [gop EXCEPT ![g] = [m |-> "set", key |-> k]]
          /\ gpc' = [gpc EXCEPT ![g] = "store"]
       \/ /\ gop' = [gop EXCEPT ![g] = [m |-> "clear", key |-> ""]]
          /\ gpc' = [gpc EXCEPT ![g] = "sweep"]
    /\ rw' = [rw EXCEPT !.writer = g]
    /\ UNCHANGED <<cache, now, fatal, lockOthers>>

\* SetCache, infrastructure.go:127-130, and the deferred Unlock.
SetStore(g) ==
    /\ ~fatal
    /\ gpc[g] = "store"
    /\ cache' = SetCache(cache, gop[g].key, <<"payload">>, CommentsTTL, now)
    /\ gpc' = [gpc EXCEPT ![g] = "idle"]
    /\ gop' = [gop EXCEPT ![g] = NoOp]
    /\ rw' = [rw EXCEPT !.writer = NoWriter]
    /\ UNCHANGED <<now, fatal, lockOthers>>

\* ClearExpired, infrastructure.go:142-147, and the deferred Unlock.
ClearSweep(g) ==
    /\ ~fatal
    /\ gpc[g] = "sweep"
    /\ cache' = ClearExpired(cache, now)
    /\ gpc' = [gpc EXCEPT ![g] = "idle"]
    /\ gop' = [gop EXCEPT ![g] = NoOp]
    /\ rw' = [rw EXCEPT !.writer = NoWriter]
    /\ UNCHANGED <<now, fatal, lockOthers>>

\* Time passes.
LockTick ==
    /\ ~fatal
    /\ now + TickMinutes <= MaxTime
    /\ now' = now + TickMinutes
    /\ UNCHANGED <<gpc, gop, rw, fatal, cache, lockOthers>>

LockNext ==
    \/ \E g \in Goroutines :
          GetRLock(g) \/ GetLookup(g) \/ GetDelete(g) \/ WriteLock(g) \/ SetStore(g)
              \/ ClearSweep(g)
    \/ LockTick

LockSpec == LockInit /\ [][LockNext]_vars

(***************************************************************************)
(* Comment parsing: Repository.detectStatusFromContent and                 *)
(* convertGitHubCommentsToWeeklyUpdates, OKRService.DetectStatusFromContent *)
(* and ExtractWeeklyUpdates                                                *)
(***************************************************************************)
MaxComments == 3        \* raw comments handed to a parser

\* A comment body is described by the set of fragments it is made of.  The
\* glyphs are named: "red-circle", "no-entry", "yellow-circle",
\* "warning-sign", "green-circle", "check-mark", "check", "cross-mark".
Fragments ==
    {"completed", "check-mark", "blocked", "red-circle", "red", "delay", "behind",
     "delayed", "yellow-circle", "risk", "on track"}

\* The listed words that occur inside a fragment (strings.Contains is a
\* substring test: "delayed" contains "delay", "at risk" contains "risk").
WordsIn(fragment) ==
    CASE fragment = "delayed" -> {"delayed", "delay"}
      [] fragment = "at risk" -> {"at risk", "risk"}
      [] fragment = "at-risk" -> {"at-risk", "risk"}
      [] OTHER -> {fragment}

\* strings.Contains(content, word) / strings.Contains(contentLower, word)
ContainsWord(c, word) == \E f \in c : word \in WordsIn(f)

ContainsAny(c, words) == \E w \in words : ContainsWord(c, w)

\* The glyph literals of the source files that hold an upper-case letter
\* (U+0178 in the circles and the no-entry sign, U+0152 in the cross mark).
GlyphsWithUpperCase ==
    {"red-circle", "no-entry", "yellow-circle", "green-circle", "cross-mark"}

\* strings.ToLower(content): the listed words are lower case already; a
\* glyph that holds an upper-case letter becomes another string, which no
\* literal of the source equals.
ToLower(c) ==
    {IF f \in GlyphsWithUpperCase
     THEN CASE f = "red-circle"    -> "red-circle in lower case"
            [] f = "no-entry"      -> "no-entry in lower case"
            [] f = "yellow-circle" -> "yellow-circle in lower case"
            [] f = "green-circle"  -> "green-circle in lower case"
            [] f = "cross-mark"    -> "cross-mark in lower case"
     ELSE f : f \in c}

\* Repository.detectStatusFromContent: the words are looked for in
\* contentLower, the glyphs in content.
detectStatusFromContent(c) ==
    LET contentLower == ToLower(c) IN
    IF ContainsAny(contentLower, {"completed", "done", "finished"}) THEN StatusCompleted
    ELSE IF \/ ContainsAny(c, {"red-circle", "no-entry"})
            \/ ContainsAny(contentLower, {"red", "blocked", "stuck", "cannot"})
    THEN StatusBlocked
    ELSE IF \/ ContainsWord(c, "red-circle") /\ ContainsAny(contentLower, {"delay", "behind"})
            \/ ContainsWord(contentLower, "delayed")
    THEN StatusDelayed
    ELSE IF \/ ContainsAny(c, {"yellow-circle", "warning-sign"})
            \/ ContainsAny(contentLower, {"yellow", "caution", "warning"})
    THEN StatusCaution
    ELSE IF ContainsAny(contentLower, {"at risk", "at-risk", "risk"}) THEN StatusAtRisk
    ELSE IF \/ ContainsAny(c, {"green-circle", "check-mark"})
            \/ ContainsAny(contentLower, {"green", "on track", "on-track", "progress"})
    THEN StatusOnTrack
    ELSE StatusUnknown

\* OKRService.DetectStatusFromContent: words and glyphs alike are looked for
\* in contentLower.
DetectStatusFromContent(c) ==
    LET contentLower == ToLower(c) IN
    IF ContainsAny(contentLower, {"completed", "done", "finished", "check-mark", "check"})
    THEN StatusCompleted
    ELSE IF ContainsAny(contentLower,
                        {"blocked", "stuck", "issue", "problem", "no-entry", "cross-mark"})
    THEN StatusBlocked
    ELSE IF ContainsAny(contentLower,
                        {"behind", "delayed", "risk", "concern", "warning-sign",
                         "yellow-circle"})
    THEN StatusAtRisk
    ELSE IF ContainsAny(contentLower, {"on track", "progress", "good", "green-circle",
                                       "check-mark"})
    THEN StatusOnTrack
    ELSE StatusOnTrack

\* The dates written in weekly updates, "YYYY-MM-DD" as <<year, month, day>>.
Dates == {<<2025, 6, 15>>, <<2025, 7, 1>>, <<2025, 7, 9>>}

\* A plausible slip: the comparison the other way round (oldest first).
DateSmaller(a, b) ==
    \/ a[1] < b[1]
    \/ a[1] = b[1] /\ a[2] < b[2]
    \/ a[1] = b[1] /\ a[2] = b[2] /\ a[3] < b[3]

\* updates[i].Date > updates[j].Date: strings of fixed-width digit fields
\* compare as their fields do, left to right.
DateGreater(a, b) ==
    \/ a[1] > b[1]
    \/ a[1] = b[1] /\ a[2] > b[2]
    \/ a[1] = b[1] /\ a[2] = b[2] /\ a[3] > b[3]

\* A comment body: how it is headed ("weekly update <date>" somewhere in it,
\* "# weekly update <date>" at the start of a line, or neither), the date
\* written there, and the fragments of the rest of it.
RawBody(heading, date, text) == [heading |-> heading, date |-> date, text |-> text]

\* github.IssueComment: complete when Body, User, User.Login and CreatedAt
\* are all set.
RawComment(body, complete) == [Body |-> body, Login |-> "octocat", complete |-> complete]

\* entity.WeeklyUpdate as the parsers build it
ParsedUpdate(body, author, status) ==
    [Date |-> body.date, Content |-> body, Author |-> author, Status |-> status]

\* weeklyUpdatePattern of the repository: (?i)weekly\s+update\s+(date)
MatchesWeeklyUpdate(body) == body.heading \in {"weekly update", "# weekly update"}

\* weeklyUpdateRegex of the service: (?mi)^#\s*weekly\s+update\s+(date)
MatchesWeeklyHeading(body) == body.heading = "# weekly update"

\* repository.go:136-146: the comments the loop does not skip
RepoQualifies(c) == c.complete /\ MatchesWeeklyUpdate(c.Body)

\* repository.go:157-164: the update built from a comment
RepoUpdateOf(c) == ParsedUpdate(c.Body, c.Login, detectStatusFromContent(c.Body.text))

\* okr.go:224-230: the update built from a comment string
ServiceUpdateOf(body) == ParsedUpdate(body, "unknown", DetectStatusFromContent(body.text))

\* The slice exchanged at positions j and j-1
Swap(seq, j) == [seq EXCEPT ![j] = seq[j - 1], ![j - 1] = seq[j]]

\* sort.Slice on a slice of at most 12 elements is an insertion sort: element
\* i moves left while less(j, j-1) holds.
RECURSIVE InsertLeft(_, _)
InsertLeft(seq, j) ==
    IF j > 1 /\ DateGreater(seq[j].Date, seq[j - 1].Date)
    THEN InsertLeft(Swap(seq, j), j - 1)
    ELSE seq

RECURSIVE InsertionSort(_, _)
InsertionSort(seq, i) ==
    IF i > Len(seq) THEN seq ELSE InsertionSort(InsertLeft(seq, i), i + 1)

\* sort.Slice sorts up to 12 elements by insertion (maxInsertion of the
\* library's pdqsort).
MaxInsertion == 12

\* less(i, j) of both parsers
LessUpdate(x, y) == DateGreater(x.Date, y.Date)

\* data.Swap(i, j)
SwapAt(seq, i, j) == [seq EXCEPT ![i] = seq[j], ![j] = seq[i]]

\* insertionSort on the range lo..hi: element i moves left while
\* less(j, j-1) holds and j is above lo.
RECURSIVE InsertLeftFrom(_, _, _)
InsertLeftFrom(seq, j, lo) ==
    IF j > lo /\ LessUpdate(seq[j], seq[j - 1])
    THEN InsertLeftFrom(SwapAt(seq, j, j - 1), j - 1, lo)
    ELSE seq

RECURSIVE InsertionSortRange(_, _, _, _)
InsertionSortRange(seq, lo, hi, i) ==
    IF i > hi THEN seq
    ELSE InsertionSortRange(InsertLeftFrom(seq, i, lo), lo, hi, i + 1)

\* order2: the two positions in order, and whether they were exchanged
Order2(seq, x, y) == IF LessUpdate(seq[y], seq[x]) THEN <<y, x, 1>> ELSE <<x, y, 0>>

\* choosePivot on a range of 8 to 49 elements: the median of the elements at
\* one, two and three quarters of the range, and the number of exchanges
\* finding it took (none: the range looks sorted).
ChoosePivot(seq) ==
    LET q  == Len(seq) \div 4
        o1 == Order2(seq, q + 1, 2 * q + 1)
        o2 == Order2(seq, o1[2], 3 * q + 1)
        o3 == Order2(seq, o1[1], o2[1])
    IN [pivot |-> o3[2], swaps |-> o1[3] + o2[3] + o3[3]]

\* partialInsertionSort on fewer than 50 elements moves nothing: it reports
\* whether the range is sorted already.
RECURSIVE SortedFrom(_, _)
SortedFrom(seq, i) ==
    IF i > Len(seq) THEN TRUE
    ELSE IF LessUpdate(seq[i], seq[i - 1]) THEN FALSE
    ELSE SortedFrom(seq, i + 1)

\* partition: i runs up over the elements that sort before the pivot
\* (kept at the first position), j runs down over the others.
RECURSIVE ScanUp(_, _, _)
ScanUp(seq, i, j) ==
    IF i <= j /\ LessUpdate(seq[i], seq[1]) THEN ScanUp(seq, i + 1, j) ELSE i

RECURSIVE ScanDown(_, _, _)
ScanDown(seq, i, j) ==
    IF i <= j /\ ~LessUpdate(seq[j], seq[1]) THEN ScanDown(seq, i, j - 1) ELSE j

RECURSIVE PartitionLoop(_, _, _)
PartitionLoop(seq, i, j) ==
    LET i2 == ScanUp(seq, i, j)
        j2 == ScanDown(seq, i2, j)
    IN IF i2 > j2 THEN [seq |-> SwapAt(seq, j2, 1), mid |-> j2]
       ELSE PartitionLoop(SwapAt(seq, i2, j2), i2 + 1, j2 - 1)

\* partition(data, a, b, pivot): the pivot goes to the front, the range is
\* divided around it, and the pivot is put at the dividing position mid.
Partition(seq, pivot) == PartitionLoop(SwapAt(seq, 1, pivot), 2, Len(seq))

\* pdqsort on MaxInsertion + 1 elements: a range that looks sorted and is
\* sorted is left alone; otherwise it is partitioned once and both parts,
\* of at most MaxInsertion elements, are sorted by insertion.
PdqSort(seq) ==
    LET c == ChoosePivot(seq)
    IN IF c.swaps = 0 /\ SortedFrom(seq, 2) THEN seq
       ELSE LET p    == Partition(seq, c.pivot)
                left == InsertionSortRange(p.seq, 1, p.mid - 1, 2)
            IN InsertionSortRange(left, p.mid + 1, Len(seq), p.mid + 2)

\* sort.Slice(updates, func(i, j int) bool { return updates[i].Date > updates[j].Date })
SortSlice(seq) ==
    IF Len(seq) <= MaxInsertion THEN InsertionSort(seq, 2) ELSE PdqSort(seq)

RECURSIVE CollectRepoUpdates(_, _)
CollectRepoUpdates(cs, k) ==
    IF k > Len(cs) THEN <<>>
    ELSE (IF RepoQualifies(cs[k]) THEN <<RepoUpdateOf(cs[k])>> ELSE <<>>)
            \o CollectRepoUpdates(cs, k + 1)

\* Repository.convertGitHubCommentsToWeeklyUpdates
convertGitHubCommentsToWeeklyUpdates(cs) == SortSlice(CollectRepoUpdates(cs, 1))

RECURSIVE CollectServiceUpdates(_, _)
CollectServiceUpdates(bodies, k) ==
    IF k > Len(bodies) THEN <<>>
    ELSE (IF MatchesWeeklyHeading(bodies[k]) THEN <<ServiceUpdateOf(bodies[k])>> ELSE <<>>)
            \o CollectServiceUpdates(bodies, k + 1)

\* OKRService.ExtractWeeklyUpdates
ExtractWeeklyUpdates(bodies) == SortSlice(CollectServiceUpdates(bodies, 1))

\* The comments a parser is handed: qualifying ones of every date and both
\* headings, one without the heading, one with a field missing.
CommentPool ==
    {RawComment(RawBody(h, d, t), TRUE) :
        h \in {"weekly update", "# weekly update"}, d \in Dates,
        t \in {{}, {"blocked"}}}
    \cup {RawComment(RawBody("none", <<2025, 7, 1>>, {}), TRUE),
          RawComment(RawBody("weekly update", <<2025, 7, 1>>, {}), FALSE)}

\* Lists one longer than sort.Slice sorts by insertion: weekly updates by
\* different authors, all dated the same day but for at most two later ones.
LongLists ==
    {[k \in 1..(MaxInsertion + 1) |->
        [Body |-> RawBody("weekly update",
                          IF k \in later THEN <<2025, 7, 9>> ELSE <<2025, 7, 1>>, {}),
         Login |-> <<"user", k>>,
         complete |-> TRUE]] :
            later \in {l \in SUBSET (1..(MaxInsertion + 1)) : Cardinality(l) <= 2}}

BodiesOf(cs) == [k \in 1..Len(cs) |-> cs[k].Body]

NoDetection == <<>>
NoParse == <<>>

\* Either a body is handed to the status detections, or a list of comments
\* to the parsers.
ParseInit ==
    /\ \/ content \in SUBSET Fragments /\ rawComments = <<>>
       \/ content = {} /\ rawComments \in SeqsUpTo(CommentPool, MaxComments) \ {<<>>}
       \/ content = {} /\ rawComments \in LongLists
    /\ detected = NoDetection
    /\ parsed = NoParse
    /\ iwu = IWU(Iss(1, IssueTypeUnset, "open"), NilUpdate, <<>>, <<>>)
    /\ krRet = "none"
    /\ objRet = "none"
    /\ OKRIdle
    /\ FetchIdle
    /\ LockIdle

DetectStatus ==
    /\ detected = NoDetection
    /\ detected' = [repo |-> detectStatusFromContent(content),
                    service |-> DetectStatusFromContent(content)]
    /\ UNCHANGED <<content, rawComments, parsed, statusVars, okrVars, fetchVars, lockVars>>

ParseComments ==
    /\ parsed = NoParse
    /\ parsed' = [repo |-> convertGitHubCommentsToWeeklyUpdates(rawComments),
                  service |-> ExtractWeeklyUpdates(BodiesOf(rawComments))]
    /\ UNCHANGED <<content, rawComments, detected, statusVars, okrVars, fetchVars, lockVars>>

ParseNext == DetectStatus \/ ParseComments

ParseSpec == ParseInit /\ [][ParseNext]_vars

(***************************************************************************)
(* Properties of the status accessors (checked under StatusSpec)           *)
(***************************************************************************)
\* Statuses of the children of the issue under test, as GetKRStatus gives them
ChildStatuses == {GetKRStatus(iwu.ChildIssues[k]) : k \in 1..Len(iwu.ChildIssues)}

NumChildrenWith(s) ==
    Cardinality({k \in 1..Len(iwu.ChildIssues) : GetKRStatus(iwu.ChildIssues[k]) = s})

\* Statuses of AllUpdates of the issue under test
HasRecognizedUpdate ==
    \E k \in 1..Len(iwu.AllUpdates) : iwu.AllUpdates[k].Status # StatusUnknown

\* The status the first recognized update calls for on an open issue.
ExpectedFromFirstRecognized ==
    LET k == CHOOSE j \in 1..Len(iwu.AllUpdates) :
                 /\ iwu.AllUpdates[j].Status # StatusUnknown
                 /\ \A h \in 1..(j - 1) : iwu.AllUpdates[h].Status = StatusUnknown
    IN IF iwu.AllUpdates[k].Status = StatusCompleted
       THEN StatusOnTrack ELSE iwu.AllUpdates[k].Status

\* C1: for every IssueWithUpdates whose Issue.State is "closed", whatever its
\* Type, AllUpdates and LatestUpdate, GetKRStatus returns Completed.
C1_ClosedIsCompleted ==
    (krRet # "none" /\ iwu.Issue.State = "closed") => krRet = StatusCompleted

\* C1 witness: GetKRStatus has returned Completed for a closed key result
\* whose newest update says Blocked.
C1_Witness ==
    /\ krRet = StatusCompleted
    /\ iwu.Issue.State = "closed"
    /\ iwu.Issue.Type = IssueTypeKeyResult
    /\ Len(iwu.AllUpdates) >= 1
    /\ iwu.AllUpdates[1].Status = StatusBlocked

\* C2 as stated: for every open issue, whatever its Type, that has at least
\* one update whose status is not Unknown, GetKRStatus returns the status of
\* the first such update (Completed downgraded to OnTrack).
C2_Original ==
    (krRet # "none" /\ iwu.Issue.State = "open" /\ HasRecognizedUpdate)
        => krRet = ExpectedFromFirstRecognized

\* C2 amended: for every open issue of Type KeyResult that has at least one
\* update whose status is not Unknown, GetKRStatus returns the status of the
\* first such update in the newest-first list, Completed downgraded to
\* OnTrack; later updates, earlier Unknown updates and LatestUpdate never
\* change the result.
C2_OpenKeyResultFirstRecognized ==
    (/\ krRet # "none"
     /\ iwu.Issue.State = "open"
     /\ iwu.Issue.Type = IssueTypeKeyResult
     /\ HasRecognizedUpdate)
        => krRet = ExpectedFromFirstRecognized

\* C2 witness: an open key result whose updates are Unknown, Completed,
\* Blocked (newest first) has been given OnTrack.
C2_Witness ==
    /\ krRet = StatusOnTrack
    /\ iwu.Issue.State = "open"
    /\ iwu.Issue.Type = IssueTypeKeyResult
    /\ Len(iwu.AllUpdates) = 3
    /\ iwu.AllUpdates[1].Status = StatusUnknown
    /\ iwu.AllUpdates[2].Status = StatusCompleted
    /\ iwu.AllUpdates[3].Status = StatusBlocked
    /\ iwu.LatestUpdate # NilUpdate
    /\ iwu.LatestUpdate[1].Status = StatusUnknown

\* C3: for every objective with at least one child, GetObjectiveStatus
\* returns Blocked if any child's GetKRStatus is Blocked; otherwise Delayed
\* if any is Delayed; otherwise AtRisk if any is AtRisk; otherwise Caution if
\* any is Caution.
C3_ObjectivePriority ==
    (/\ objRet # "none"
     /\ iwu.Issue.Type = IssueTypeObjective
     /\ Len(iwu.ChildIssues) >= 1)
        =>
        /\ StatusBlocked \in ChildStatuses => objRet = StatusBlocked
        /\ (StatusBlocked \notin ChildStatuses /\ StatusDelayed \in ChildStatuses)
              => objRet = StatusDelayed
        /\ ({StatusBlocked, StatusDelayed} \cap ChildStatuses = {}
               /\ StatusAtRisk \in ChildStatuses)
              => objRet = StatusAtRisk
        /\ ({StatusBlocked, StatusDelayed, StatusAtRisk} \cap ChildStatuses = {}
               /\ StatusCaution \in ChildStatuses)
              => objRet = StatusCaution

\* C3 witness: an objective with one Blocked child among two Completed ones
\* (and a Delayed-free, three-child list) has been given Blocked.
C3_Witness ==
    /\ objRet = StatusBlocked
    /\ iwu.Issue.Type = IssueTypeObjective
    /\ Len(iwu.ChildIssues) = 3
    /\ NumChildrenWith(StatusBlocked) = 1
    /\ NumChildrenWith(StatusCompleted) = 2

\* C4 as stated: for every objective with n >= 1 children none of which is
\* Blocked, Delayed, AtRisk or Caution, GetObjectiveStatus returns Completed
\* if all n are Completed; otherwise OnTrack if the number of Completed
\* children is at least ceil(n/2) or at least one child is OnTrack; otherwise
\* Unknown.
C4_Original ==
    (/\ objRet # "none"
     /\ iwu.Issue.Type = IssueTypeObjective
     /\ Len(iwu.ChildIssues) >= 1
     /\ {StatusBlocked, StatusDelayed, StatusAtRisk, StatusCaution}
            \cap ChildStatuses = {})
        =>
        LET n == Len(iwu.ChildIssues)
            completed == NumChildrenWith(StatusCompleted)
        IN objRet =
            IF completed = n THEN StatusCompleted
            ELSE IF 2 * completed >= n \/ NumChildrenWith(StatusOnTrack) > 0
                 THEN StatusOnTrack
            ELSE StatusUnknown

C23_ChildlessObjectiveAsKR ==
    (/\ krRet # "none"
     /\ objRet # "none"
     /\ iwu.Issue.Type = IssueTypeObjective
     /\ Len(iwu.ChildIssues) = 0)
        => objRet = krRet

\* C23 witness: both accessors returned Unknown for an open childless
\* objective without a latest update whose first listed update says Blocked.
C23_Witness ==
    /\ krRet = StatusUnknown
    /\ objRet = StatusUnknown
    /\ iwu.Issue.Type = IssueTypeObjective
    /\ iwu.Issue.State = "open"
    /\ Len(iwu.ChildIssues) = 0
    /\ iwu.LatestUpdate = NilUpdate
    /\ Len(iwu.AllUpdates) >= 1
    /\ iwu.AllUpdates[1].Status = StatusBlocked

\* C24 as stated: for an objective with at least one child,
\* GetObjectiveStatus returns Unknown only if every child's GetKRStatus is
\* Unknown.
C24_Original ==
    (/\ objRet = StatusUnknown
     /\ iwu.Issue.Type = IssueTypeObjective
     /\ Len(iwu.ChildIssues) >= 1)
        => ChildStatuses = {StatusUnknown}

(***************************************************************************)
(* Properties of ProcessOKRIssues (checked under OKRSpec)                  *)
(***************************************************************************)
\* Pointers of the issues that passed the label filter
Filtered == {filteredIssues[j] : j \in 1..Len(filteredIssues)}

\* The issue behind pointer k has children recorded under its number.
HasRecordedChild(k) == Len(parentChildMap[issues[k].Number]) >= 1

\* The issue behind pointer k is recorded as the child of some number.
HasRecordedParent(k) ==
    \E n \in RefNumbers : \E j \in 1..Len(parentChildMap[n]) : parentChildMap[n][j] = k

\* The issue behind pointer k carries no parent reference at all.
NoReference(k) == issues[k].Title \o issues[k].Body = <<>>

AllFilteredURLsOK == \A k \in Filtered : issues[k].URL = IssueURL(issues[k].Number)

\* C5 as stated: whenever classification of a non-empty filtered set yields
\* zero Objectives (and owner/repo can be extracted from every issue URL),
\* ProcessOKRIssues outputs exactly one top-level node per filtered issue,
\* each with Type Objective and an empty child list.
C5_Original ==
    (pc = "done" /\ usedFallback /\ AllFilteredURLsOK)
        =>
        /\ Len(ret) = Len(filteredIssues)
        /\ \A k \in 1..Len(ret) :
            /\ ret[k].Issue.Number = issues[filteredIssues[k]].Number
            /\ ret[k].Issue.Type = IssueTypeObjective
            /\ ret[k].ChildIssues = <<>>

\* C6 as stated: if at least one issue passes the label filter then
\* ProcessOKRIssues returns a non-empty list of objective nodes, whatever the
\* issue URLs are and whichever comment fetches fail.
C6_Original ==
    (pc = "done" /\ Len(filteredIssues) >= 1) => Len(ret) >= 1

\* C7: after BuildParentChildRelationships and IdentifyObjectivesAndKeyResults,
\* every issue of the filtered set is classified Objective (and returned as
\* an objective) iff it has at least one recorded child and no recorded
\* parent, is classified KeyResult iff it has a recorded parent, and
\* otherwise keeps its type unset.
C7_Classification ==
    pc = "identified" =>
        \A k \in Filtered :
            /\ issues[k].Type = IssueTypeObjective
                  <=> (HasRecordedChild(k) /\ ~HasRecordedParent(k))
            /\ (\E j \in 1..Len(parentIssues) : parentIssues[j] = k)
                  <=> (HasRecordedChild(k) /\ ~HasRecordedParent(k))
            /\ issues[k].Type = IssueTypeKeyResult <=> HasRecordedParent(k)
            /\ (~HasRecordedChild(k) /\ ~HasRecordedParent(k))
                  => issues[k].Type = IssueTypeUnset

\* C7 witness: issue #2 says "Parent Issue: #1" and #1 names no parent; after
\* identification #1 is the Objective, #2 a KeyResult and parentChildMap[1]
\* is exactly [#2].
C7_Witness ==
    /\ pc = "identified"
    /\ Len(issues) = 2
    /\ filteredIssues = <<1, 2>>
    /\ issues[1].Title \o issues[1].Body = <<>>
    /\ issues[2].Title \o issues[2].Body = <<Phrase(1, 1)>>
    /\ issues[1].Type = IssueTypeObjective
    /\ issues[2].Type = IssueTypeKeyResult
    /\ parentChildMap[1] = <<2>>
    /\ parentIssues = <<1>>

\* C8 as stated: a parent reference in which an issue names its own number
\* is ignored: the issue is not recorded as its own child in parentChildMap,
\* is not classified KeyResult because of that reference, and never appears
\* as a child of itself in the output tree.
C8_Original ==
    /\ pc # "idle" =>
        \A k \in 1..Len(issues) :
            \A j \in 1..Len(parentChildMap[issues[k].Number]) :
                parentChildMap[issues[k].Number][j] # k
    /\ pc = "identified" =>
        \A k \in Filtered :
            (issues[k].Title \o issues[k].Body = <<Phrase(1, issues[k].Number)>>)
                => issues[k].Type # IssueTypeKeyResult
    /\ \A o \in 1..Len(objectives) :
        \A c \in 1..Len(objectives[o].ChildIssues) :
            objectives[o].ChildIssues[c].Issue.Number # objectives[o].Issue.Number

\* C9 as stated: when ProcessOKRIssues finishes, every issue that passed the
\* label filter has Type Objective or KeyResult, and every filtered issue
\* that carries no parent reference has Type Objective.
C9_Original ==
    pc = "done" =>
        \A k \in Filtered :
            /\ issues[k].Type \in {IssueTypeObjective, IssueTypeKeyResult}
            /\ NoReference(k) => issues[k].Type = IssueTypeObjective

\* The pointers of ptrs whose issue has the URL of its issue page, in order
WithIssueURL(ptrs) ==
    SelectSeq(ptrs, LAMBDA k : issues[k].URL = IssueURL(issues[k].Number))

\* The updates of a node are those the remote holds for its issue, or none
\* at all (and then no latest update either).
UpdatesFetchedOrNone(node) ==
    \/ node.AllUpdates = RemoteUpdates(node.Issue.Number)
    \/ node.AllUpdates = <<>> /\ node.LatestUpdate = NilUpdate

\* C25: if FetchIssueComments fails for any subset of the objectives and key
\* results, ProcessOKRIssues still returns its list, and every issue whose
\* comment fetch failed is in the output at the position it has when the
\* fetch succeeds (top-level objective, or child of the same objective),
\* with an empty update list and no latest update.
C25_FetchFailureKeepsNode ==
    pc = "done" =>
        LET tops == WithIssueURL(parentIssues) IN
        /\ Len(ret) = Len(tops)
        /\ \A o \in 1..Len(ret) :
            LET kids == WithIssueURL(parentChildMap[issues[tops[o]].Number]) IN
            /\ ret[o].Issue.Number = issues[tops[o]].Number
            /\ UpdatesFetchedOrNone(ret[o])
            /\ Len(ret[o].ChildIssues) = Len(kids)
            /\ \A c \in 1..Len(ret[o].ChildIssues) :
                /\ ret[o].ChildIssues[c].Issue.Number = issues[kids[c]].Number
                /\ UpdatesFetchedOrNone(ret[o].ChildIssues[c])

\* C25 witness: the fetch for objective #1 (two updates on the remote) and
\* for its second child #3 (one update) failed, the one for child #2
\* did not matter; the run returned #1 with children #2 and #3, #1 and #3
\* without updates.
C25_Witness ==
    /\ pc = "done"
    /\ Len(ret) = 1
    /\ ret[1].Issue.Number = 1
    /\ ret[1].AllUpdates = <<>>
    /\ ret[1].LatestUpdate = NilUpdate
    /\ Len(ret[1].ChildIssues) = 2
    /\ ret[1].ChildIssues[1].Issue.Number = 2
    /\ ret[1].ChildIssues[2].Issue.Number = 3
    /\ ret[1].ChildIssues[2].AllUpdates = <<>>

\* C26 as stated: during one ProcessOKRIssues run the Type of each issue is
\* assigned at most once: once it is Objective or KeyResult, no later step
\* sets it to the other value.
C26_Original ==
    [][\A k \in 1..Len(issues) :
          (k <= Len(issues') /\ issues[k].Type \in {IssueTypeObjective, IssueTypeKeyResult})
              => issues'[k].Type = issues[k].Type]_vars

\* Every node built so far: the objectives and their children
OutputNodes ==
    {objectives[o] : o \in 1..Len(objectives)}
    \cup UNION {{objectives[o].ChildIssues[c] : c \in 1..Len(objectives[o].ChildIssues)} :
                    o \in 1..Len(objectives)}

\* C27: in every output node (objective or child), LatestUpdate is absent
\* iff AllUpdates is empty, and otherwise LatestUpdate equals AllUpdates[0]
\* (same date, content, author and status).
C27_LatestIsFirstUpdate ==
    \A node \in OutputNodes :
        /\ node.LatestUpdate = NilUpdate <=> node.AllUpdates = <<>>
        /\ node.AllUpdates # <<>> => node.LatestUpdate = <<node.AllUpdates[1]>>

\* C27 witness: the returned objective #1 has two updates and the newer one
\* (status Unknown, the older says Blocked) as its latest; its child #2 has
\* neither updates nor a latest update.
C27_Witness ==
    /\ pc = "done"
    /\ Len(ret) = 1
    /\ ret[1].Issue.Number = 1
    /\ Len(ret[1].AllUpdates) = 2
    /\ ret[1].LatestUpdate # NilUpdate
    /\ ret[1].LatestUpdate[1].Status = StatusUnknown
    /\ ret[1].AllUpdates[2].Status = StatusBlocked
    /\ Len(ret[1].ChildIssues) >= 1
    /\ ret[1].ChildIssues[1].Issue.Number = 2
    /\ ret[1].ChildIssues[1].AllUpdates = <<>>
    /\ ret[1].ChildIssues[1].LatestUpdate = NilUpdate

\* C28 as stated: key results are never duplicated across objectives: in the
\* output of ProcessOKRIssues every issue appears in the child list of at
\* most one objective, and at most once in that list.
C28_Original ==
    \A p1 \in (1..Len(objectives)) \X (1..Len(issues)) :
        \A p2 \in (1..Len(objectives)) \X (1..Len(issues)) :
            (/\ p1[2] <= Len(objectives[p1[1]].ChildIssues)
             /\ p2[2] <= Len(objectives[p2[1]].ChildIssues)
             /\ objectives[p1[1]].ChildIssues[p1[2]].Issue.Number
                    = objectives[p2[1]].ChildIssues[p2[2]].Issue.Number)
                => p1 = p2


\* The issue numbers of the returned tree
NumbersInTree ==
    {ret[o].Issue.Number : o \in 1..Len(ret)}
    \cup UNION {{ret[o].ChildIssues[c].Issue.Number : c \in 1..Len(ret[o].ChildIssues)} :
                    o \in 1..Len(ret)}

\* C30 as stated: no filtered issue is lost: when owner/repo can be
\* extracted from every URL, every issue that passed the label filter
\* appears in the output tree, as a top-level objective or as a child; also
\* an issue with neither parent nor children next to real objectives, a key
\* result whose parent is itself a key result, and a key result whose parent
\* is outside the filtered set.
C30_Original ==
    (pc = "done" /\ AllFilteredURLsOK)
        => \A k \in Filtered : issues[k].Number \in NumbersInTree

(***************************************************************************)
(* Properties of the fetch operations (checked under FetchSpec)            *)
(***************************************************************************)
\* The configured maximum number of attempts: GitHub.MaxRetries, 3 when unset
ConfiguredMaximum ==
    IF config.GitHub.MaxRetries > 0 THEN config.GitHub.MaxRetries ELSE DefaultMaxRetries

\* Every attempt of the running call so far ended in a transient API error.
AllAttemptsTransient ==
    /\ Len(attemptErrs) = bodyRuns
    /\ \A k \in 1..Len(attemptErrs) : attemptErrs[k] \in TransientAPIErrors

\* C10 as stated: for each logical fetch operation (issue search and
\* per-issue comment listing alike), when every attempt fails with a
\* transient error the operation body is attempted exactly the configured
\* maximum number of times (GitHub.MaxRetries, 3 when unset) and only then is
\* the error returned to the caller.
C10_Original ==
    (fpc = "done" /\ result.status = "err" /\ bodyRuns >= 1 /\ AllAttemptsTransient)
        => bodyRuns = ConfiguredMaximum

\* RetryCount increments the running call has made
RetriesOfCall == stats.RetryCount - atCall.stats.RetryCount

\* C11 as stated: when an attempt of a fetch operation fails with an error
\* that is not transient (e.g. HTTP 404), the operation returns that error
\* at once; no further attempt follows, and RetryCount is not incremented
\* after that failure.
C11_Original ==
    \A k \in 1..Len(attemptErrs) :
        attemptErrs[k] \in PermanentAPIErrors
            => /\ k = Len(attemptErrs)
               /\ fpc = "done"
               /\ result.status = "err"
               /\ result.err = WrapError(call, attemptErrs[k])
               /\ bodyRuns = k
               /\ RetriesOfCall = k - 1

\* The attempts of the running call before the last one each ended in a
\* transient API error, and the last one ended without error.
TransientThenSuccess ==
    /\ fpc = "done"
    /\ bodyRuns >= 1
    /\ Len(attemptErrs) = bodyRuns - 1
    /\ \A k \in 1..Len(attemptErrs) : attemptErrs[k] \in TransientAPIErrors

\* C12: if the first k attempts of a fetch operation fail with a transient
\* error and attempt k+1 succeeds (k+1 within the maximum handed to
\* retryWithBackoff), the operation returns success and RetryCount has
\* increased by exactly k.
C12_RetryCountOnSuccess ==
    TransientThenSuccess
        => /\ result.status = "ok"
           /\ bodyRuns <= maxRetries
           /\ RetriesOfCall = bodyRuns - 1

\* C12 witness: two "connection reset" failures, success on attempt 3,
\* RetryCount up by 2.
C12_Witness ==
    /\ TransientThenSuccess
    /\ attemptErrs = <<<<"connection reset">>, <<"connection reset">>>>
    /\ bodyRuns = 3
    /\ result.status = "ok"
    /\ RetriesOfCall = 2

\* How often the item of rank r occurs in a list of fetched ranges
Occurrences(data, r) ==
    Cardinality({k \in 1..Len(data) : data[k].from <= r /\ r <= data[k].to})

\* Every item the remote holds occurs exactly once in data; with a configured
\* limit on the number of issues, which may end a search early, at most once.
EachItemOnce(data) ==
    \A r \in 1..RemoteTotal(call) :
        IF call.kind = "search" /\ config.GitHub.MaxIssuesLimit > 0
        THEN Occurrences(data, r) <= 1
        ELSE Occurrences(data, r) = 1

\* C29 as stated: a paginated fetch that succeeds after one or more failed
\* attempts returns each item of each remote page exactly once: items of
\* pages retrieved during a failed attempt do not appear a second time in
\* the result or in the cached payload.
C29_Original ==
    (TransientThenSuccess /\ bodyRuns >= 2 /\ result.status = "ok")
        => /\ EachItemOnce(result.data)
           /\ (config.Performance.CacheEnabled /\ Paginated(call))
                 => EachItemOnce(cache[CacheKey(call)][1].Data)

\* What the last fetch of the key that went to the API returned
LastFetched(key) == fetched[key][1]

\* C13: with caching enabled, a fetchIssueComments call that starts after an
\* earlier call for the same owner, repo and issue number succeeded, and
\* before that entry's TTL has elapsed, sends no request and takes no
\* rate-limiter token, returns the comments of the earlier call and
\* increments CacheHitsCount by exactly one; the earlier call incremented
\* CacheHitsCount by zero.
C13_SecondCallHitsCache ==
    [][(/\ fpc = "idle"
        /\ fpc' # "idle"
        /\ call'.kind = "comments"
        /\ config.Performance.CacheEnabled
        /\ fetched[CacheKey(call')] # <<>>
        /\ now < LastFetched(CacheKey(call')).at + CommentsTTL)
        => /\ fpc' = "done"
           /\ result' = [status |-> "ok", err |-> <<>>,
                         data |-> LastFetched(CacheKey(call')).data]
           /\ stats' = [stats EXCEPT !.CacheHitsCount = @ + 1]
           /\ tokens' = tokens
           /\ LastFetched(CacheKey(call')).hits = 0]_vars

\* C13 witness: the second listing of the comments of issue #1, started four
\* minutes after the first, has returned from the cache.
C13_Witness ==
    /\ fpc = "done"
    /\ call = [kind |-> "comments", arg |-> 1]
    /\ config.Performance.CacheEnabled
    /\ fetched[CacheKey(call)] # <<>>
    /\ now = LastFetched(CacheKey(call)).at + TickMinutes
    /\ bodyRuns = 0
    /\ result.status = "ok"
    /\ result.data = LastFetched(CacheKey(call)).data
    /\ result.data # <<>>
    /\ stats.CacheHitsCount = atCall.stats.CacheHitsCount + 1
    /\ stats.APICallsCount = atCall.stats.APICallsCount

\* The running call has returned an error.
ReturnedError == fpc = "done" /\ result.status = "err"

\* Each cache entry holds the payload of a fetch for its key that returned
\* success.
EntriesAreFetchedPayloads ==
    \A key \in CacheKeys :
        cache[key] # NoEntry
            => /\ fetched[key] # <<>>
               /\ cache[key][1].Data = LastFetched(key).data

\* C14 as stated: a fetch operation that returns an error leaves the cache
\* exactly as it was, and each cache entry holds the payload of a fetch for
\* that key that returned success.
C14_Original ==
    /\ ReturnedError => cache = atCall.cache
    /\ EntriesAreFetchedPayloads

\* C14, corrected: a fetch operation that returns an error adds no entry and
\* changes none; the cache is as it was except that the lookup may have
\* evicted the expired entry under the operation's own key.  Each cache entry
\* holds the payload of a fetch for that key that returned success.
C14_NoNegativeCaching ==
    /\ ReturnedError
        => \A key \in CacheKeys :
              \/ cache[key] = atCall.cache[key]
              \/ /\ key = CacheKey(call)
                 /\ cache[key] = NoEntry
                 /\ now > atCall.cache[key][1].ExpiresAt
    /\ EntriesAreFetchedPayloads

\* C14 witness: a call that went to the API has returned an error while the
\* cache holds an entry.
C14_Witness ==
    /\ ReturnedError
    /\ bodyRuns >= 1
    /\ \E key \in CacheKeys : cache[key] # NoEntry /\ cache[key][1].Data # <<>>

\* C15 as stated: fetchIssuesBySearchQuery requests a further page only
\* while the number of issues accumulated so far is below the configured
\* maximum issue count; once the count has reached the maximum no further
\* page is requested.
C15_Original ==
    (fpc = "request" /\ call.kind = "search" /\ page > 0)
        => LenItems(allItems) < MaxIssuesOf(config)

\* C18: every outbound API request (each page of a search or comment
\* listing, in every retry attempt) is preceded by its own successful Wait on
\* the client's rate limiter, one token per request: the requests sent so far
\* are exactly the tokens taken, but for the one token a goroutine holds
\* between its Wait and the request it is about to send.
C18_OneTokenPerRequest ==
    /\ [](tokens = stats.APICallsCount + (IF fpc = "request" THEN 1 ELSE 0))
    /\ [][stats'.APICallsCount # stats.APICallsCount
            => /\ fpc = "request"
               /\ stats'.APICallsCount = stats.APICallsCount + 1
               /\ tokens' = tokens]_vars

\* C18 witness: in its second attempt a call is about to request a further
\* page, having taken a token for it and for each request before.
C18_Witness ==
    /\ fpc = "request"
    /\ bodyRuns = 2
    /\ page > 0
    /\ tokens >= 3
    /\ stats.APICallsCount = tokens - 1

(***************************************************************************)
(* Properties of cancellation (checked under CancelSpec)                   *)
(***************************************************************************)
\* C16 as stated: if the caller's context is cancelled while the operation
\* waits for a rate-limiter token or sleeps in retry backoff, the operation
\* sends no further outbound request, makes no further retry attempt, and
\* returns an error that identifies cancellation.
C16_Original ==
    cancelled # NotCancelled
        => /\ stats.APICallsCount = cancelled[1].APICallsCount
           /\ bodyRuns = cancelled[1].bodyRuns
           /\ fpc = "done" => /\ result.status = "err"
                              /\ Contains(result.err, "context canceled")

(***************************************************************************)
(* Properties of the cache lock (checked under LockSpec)                   *)
(***************************************************************************)
\* C17 as stated: under every interleaving of concurrent GetFromCache,
\* SetCache and ClearExpired calls on one APICache, each insertion into or
\* deletion from the entry map happens while the caller holds the exclusive
\* lock, so no two map mutations, and no mutation and read, overlap
\* (including the eviction of an expired entry during a lookup).
C17_Original ==
    \A g \in Goroutines :
        gpc[g] \in MutatingMap
            => /\ rw.writer = g
               /\ ~OtherAccessing(g)

(***************************************************************************)
(* Properties of comment parsing (checked under ParseSpec)                 *)
(***************************************************************************)
\* The rules of the claim, in its order, with the triggers the specification
\* lists for them; a red indicator is the red glyph or the word "red".
ClaimedStatus(c) ==
    IF ContainsAny(c, {"completed", "done", "finished", "check-mark"}) THEN StatusCompleted
    ELSE IF ContainsAny(c, {"blocked", "stuck", "no-entry"}) THEN StatusBlocked
    ELSE IF \/ ContainsAny(c, {"red-circle", "red"}) /\ ContainsAny(c, {"delay", "behind"})
            \/ ContainsWord(c, "delayed")
    THEN StatusDelayed
    ELSE IF ContainsAny(c, {"yellow-circle", "warning-sign", "caution", "warning"})
    THEN StatusCaution
    ELSE IF ContainsAny(c, {"at risk", "at-risk", "risk"}) THEN StatusAtRisk
    ELSE IF ContainsAny(c, {"green-circle", "check-mark", "on track", "progress"})
    THEN StatusOnTrack
    ELSE StatusUnknown

\* C19 as stated: detectStatus returns the status of the first rule in the
\* order Completion, Blocked, Delayed, Caution, AtRisk, OnTrack whose trigger
\* is present, and Unknown when none is; in particular content with a red
\* indicator plus "delay" or "behind" and no completion or blocking wording
\* is Delayed.
C19_Original ==
    detected # NoDetection => detected.repo = ClaimedStatus(content)

\* The day a date names, as one number (year, month, day in decimal places)
DayNumber(d) == d[1] * 10000 + d[2] * 100 + d[3]

\* A list is in non-increasing date order.
NonIncreasing(us) ==
    \A i \in 1..(Len(us) - 1) : DayNumber(us[i + 1].Date) <= DayNumber(us[i].Date)

\* out holds exactly the updates of the comments in at, each once.
ExactlyTheUpdatesOf(out, at, updateOf(_)) ==
    /\ Len(out) = Cardinality(at)
    /\ \A i \in 1..Len(out) : \E k \in at : out[i] = updateOf(k)
    /\ \A k \in at :
          Cardinality({i \in 1..Len(out) : out[i] = updateOf(k)})
              = Cardinality({j \in at : updateOf(j) = updateOf(k)})

RepoUpdateAt(k) == RepoUpdateOf(rawComments[k])
ServiceUpdateAt(k) == ServiceUpdateOf(rawComments[k].Body)

\* C20: for every list of raw comments, the WeeklyUpdate list a parser
\* produces is in non-increasing date order and contains exactly the
\* qualifying comments, none added or lost by sorting.
C20_SortedNewestFirst ==
    parsed # NoParse
        => /\ NonIncreasing(parsed.repo)
           /\ ExactlyTheUpdatesOf(parsed.repo,
                  {k \in 1..Len(rawComments) : RepoQualifies(rawComments[k])},
                  RepoUpdateAt)
           /\ NonIncreasing(parsed.service)
           /\ ExactlyTheUpdatesOf(parsed.service,
                  {k \in 1..Len(rawComments) : MatchesWeeklyHeading(rawComments[k].Body)},
                  ServiceUpdateAt)

\* C20 witness: updates dated 2025-07-01, 2025-07-09, 2025-06-15 came out as
\* 2025-07-09, 2025-07-01, 2025-06-15.
C20_Witness ==
    /\ parsed # NoParse
    /\ Len(rawComments) = 3
    /\ \A k \in 1..3 : RepoQualifies(rawComments[k])
    /\ [k \in 1..3 |-> rawComments[k].Body.date]
          = <<<<2025, 7, 1>>, <<2025, 7, 9>>, <<2025, 6, 15>>>>
    /\ [k \in 1..3 |-> parsed.repo[k].Date]
          = <<<<2025, 7, 9>>, <<2025, 7, 1>>, <<2025, 6, 15>>>>

\* The position of an update in the parsed list
PositionIn(us, u) == CHOOSE i \in 1..Len(us) : us[i] = u

\* Comment k qualifies and no other comment of the list yields the same
\* update.
SingularAt(k) ==
    /\ RepoQualifies(rawComments[k])
    /\ \A j \in 1..Len(rawComments) :
          (j # k /\ RepoQualifies(rawComments[j])) => RepoUpdateAt(j) # RepoUpdateAt(k)

\* C21 as stated: the comment parser's sort is stable: any two qualifying
\* comments that carry the same date appear in the output in the same
\* relative order as in the fetched comment list, for every input list.
C21_Original ==
    parsed # NoParse
        => \A i, j \in 1..Len(rawComments) :
              (/\ i < j
               /\ SingularAt(i)
               /\ SingularAt(j)
               /\ rawComments[i].Body.date = rawComments[j].Body.date)
                  => PositionIn(parsed.repo, RepoUpdateAt(i))
                        < PositionIn(parsed.repo, RepoUpdateAt(j))

====
